---------------------------- MODULE Spec2Model ----------------------------
(***************************************************************************)
(* Reference extraction and citation graph engine of japan-law.           *)
(*                                                                         *)
(* Strings are sequences of UTF-16 code units (natural numbers), because   *)
(* the extractor's regular expressions are character-class tests on code   *)
(* units.  JavaScript's null and "" (both falsy) are the empty sequence.   *)
(* Positions are 0-based as in JavaScript; At(s, i) reads s[i].            *)
(***************************************************************************)
EXTENDS Integers, Sequences, FiniteSets, TLC

(***************************************************************************)
(* Bounds of the model.                                                    *)
(***************************************************************************)
\* number of tokens concatenated into the body of a document text
MaxTokens == 2
\* length of the reference lists handed to dedupeReferences
MaxRefs == 3
\* length of the reference lists the graph is built from
MaxEdges == 3
\* largest numeric hop cap tried
MaxHopCap == 2
\* number of nodes the important laws are selected from
MaxNodes == 4
\* largest selection size tried next to the program's own
MaxTopCount == 3
\* number of documents of an extraction run
MaxDocs == 3
\* largest worker count of a run
MaxWorkers == 2
\* length of the work lists chunked on their own
MaxItems == 9
\* largest worker count of the chunking on its own
MaxParallel == 6

(***************************************************************************)
(* Strings.                                                                *)
(***************************************************************************)
Null == <<>>

Min(a, b) == IF a <= b THEN a ELSE b

\* s[i], 0-based; 0 (no character) out of range, like "" / undefined
At(s, i) == IF i >= 0 /\ i < Len(s) THEN s[i + 1] ELSE 0

\* String.prototype.substring(a, b) for 0 <= a <= b
Substring(s, a, b) == SubSeq(s, Min(a, Len(s)) + 1, Min(b, Len(s)))

\* Array.prototype.slice(a, b) for 0 <= a <= b
Slice(xs, a, b) == SubSeq(xs, Min(a, Len(xs)) + 1, Min(b, Len(xs)))

\* Array.prototype.flat()
RECURSIVE Flatten(_)
Flatten(lists) ==
    IF lists = <<>> THEN <<>> ELSE Head(lists) \o Flatten(Tail(lists))

\* t occurs in s at position i
StartsWithAt(s, t, i) ==
    /\ i >= 0
    /\ i + Len(t) <= Len(s)
    /\ \A k \in 1..Len(t) : s[i + k] = t[k]

\* String.prototype.indexOf(t): first position of t in s, -1 if none
IndexOf(s, t) ==
    IF \E i \in 0..(Len(s) - Len(t)) : StartsWithAt(s, t, i)
    THEN CHOOSE i \in 0..(Len(s) - Len(t)) :
            /\ StartsWithAt(s, t, i)
            /\ \A j \in 0..(i - 1) : ~StartsWithAt(s, t, j)
    ELSE -1

(***************************************************************************)
(* Character classes of the regular expressions (code-unit ranges).        *)
(***************************************************************************)
\* [一-龠ぁ-んァ-ヶ]
IsCjkKana(c) ==
    \/ c \in 19968..40864
    \/ c \in 12353..12435
    \/ c \in 12449..12534

\* [一-龠ぁ-んァ-ヶａ-ｚＡ-Ｚa-zA-Z・]
IsNameChar(c) ==
    \/ IsCjkKana(c)
    \/ c \in 65345..65370
    \/ c \in 65313..65338
    \/ c \in 97..122
    \/ c \in 65..90
    \/ c = 12539

\* [一二三四五六七八九十〇０-９0-9]
IsOrdinalChar(c) ==
    \/ c \in {19968, 20108, 19977, 22235, 20116, 20845, 19971, 20843, 20061,
              21313, 12295}
    \/ c \in 65296..65305
    \/ c \in 48..57

\* [一二三四五六七八九十百千〇０-９0-9]
IsArticleNumChar(c) == IsOrdinalChar(c) \/ c \in {30334, 21315}

(***************************************************************************)
(* Literals.                                                               *)
(***************************************************************************)
ChDai == <<31532>>                     \* 第
ChJou == <<26465>>                     \* 条
ChNo == <<12398>>                      \* の
ChKou == <<38917>>                     \* 項
ChGou == <<21495>>                     \* 号
ParenOpen == <<65288>>                 \* （
ParenClose == <<65289>>                \* ）
Colon == <<58>>                        \* :

\* 明治|大正|昭和|平成|令和
Eras == << <<26126, 27835>>, <<22823, 27491>>, <<26157, 21644>>,
           <<24179, 25104>>, <<20196, 21644>> >>

\* 法|令|規則|条例
LawSuffixes == << <<27861>>, <<20196>>, <<35215, 21063>>, <<26465, 20363>> >>

\* の一部を改正する
AmendLiteral == <<12398, 19968, 37096, 12434, 25913, 27491, 12377, 12427>>

\* 法律|政令|省令|規則
AmendKinds == << <<27861, 24459>>, <<25919, 20196>>, <<30465, 20196>>,
                 <<35215, 21063>> >>

\* "unknown:"
UnknownPrefix == <<117, 110, 107, 110, 111, 119, 110, 58>>

(***************************************************************************)
(* Quantifier limits and windows of the extractor.                         *)
(***************************************************************************)
NameMinRun == 2
NameMaxRun == 50
NumMinRun == 3
NumMaxRun == 50
LookAhead == 50
MinNameLength == 2

(***************************************************************************)
(* Regular expressions.                                                    *)
(***************************************************************************)
\* length of the longest run of characters satisfying Cls from position i
RECURSIVE RunLen(_, _, _)
RunLen(s, i, withHundreds) ==
    IF i < Len(s) /\ (IF withHundreds THEN IsArticleNumChar(At(s, i))
                                      ELSE IsOrdinalChar(At(s, i)))
    THEN 1 + RunLen(s, i + 1, withHundreds)
    ELSE 0

\* the first alternative of alts that occurs at position i, <<>> if none
FirstAltAt(s, alts, i) ==
    IF \E a \in 1..Len(alts) : StartsWithAt(s, alts[a], i)
    THEN alts[CHOOSE a \in 1..Len(alts) :
                 /\ StartsWithAt(s, alts[a], i)
                 /\ \A b \in 1..(a - 1) : ~StartsWithAt(s, alts[b], i)]
    ELSE <<>>

\* [^）]{3,50}?号） from position q, having taken m characters: the length
\* of the shortest run that the closing 号） follows, 0 if there is none
RECURSIVE LazyNumLen(_, _, _)
LazyNumLen(s, q, m) ==
    IF m > NumMaxRun \/ q + m >= Len(s) THEN 0
    ELSE IF /\ m >= NumMinRun
            /\ StartsWithAt(s, ChGou, q + m)
            /\ StartsWithAt(s, ParenClose, q + m + 1) THEN m
    ELSE IF At(s, q + m) = ParenClose[1] THEN 0
    ELSE LazyNumLen(s, q, m + 1)

\* the match at position i whose lazy run has length m (0: no match)
LawNumOfLen(s, i, m) ==
    IF m > 0
    THEN [ok |-> TRUE, num |-> Substring(s, i + 1, i + m + 4), end |-> i + m + 5]
    ELSE [ok |-> FALSE, num |-> Null, end |-> i]

\* （((?:明治|大正|昭和|平成|令和)[^）]{3,50}?号)） matched at position i:
\* ok, the captured number and the position after the match
LawNumAt(s, i) ==
    LawNumOfLen(s, i,
                IF StartsWithAt(s, ParenOpen, i) /\ FirstAltAt(s, Eras, i + 1) # <<>>
                THEN LazyNumLen(s, i + 3, 0)
                ELSE 0)

\* the position after the optional group open(O+)close tried at position p;
\* p itself when the group does not take part
GroupEnd(s, open, close, p, withHundreds) ==
    IF /\ StartsWithAt(s, open, p)
       /\ RunLen(s, p + 1, withHundreds) >= 1
       /\ StartsWithAt(s, close, p + 1 + RunLen(s, p + 1, withHundreds))
    THEN p + 1 + RunLen(s, p + 1, withHundreds) + Len(close)
    ELSE p

\* what the group tried at position p captures, Null (undefined) if it does
\* not take part
GroupText(s, open, close, p, withHundreds) ==
    IF GroupEnd(s, open, close, p, withHundreds) > p
    THEN Substring(s, p + 1, GroupEnd(s, open, close, p, withHundreds) - Len(close))
    ELSE Null

\* the captures, 第(N+)条 ending at p1 (0: no match), の(O+) at p2, 第(O+)項 at p3
ArticleGroups(s, p1, p2, p3) ==
    [ok |-> p1 > 0,
     g1 |-> IF p1 > 0 THEN GroupText(s, ChDai, ChJou, 0, TRUE) ELSE Null,
     g2 |-> IF p1 > 0 THEN GroupText(s, ChNo, <<>>, p1, FALSE) ELSE Null,
     g3 |-> IF p1 > 0 THEN GroupText(s, ChDai, ChKou, p2, FALSE) ELSE Null,
     g4 |-> IF p1 > 0 THEN GroupText(s, ChDai, ChGou, p3, FALSE) ELSE Null]

ArticleFromBranch(s, p1, p2) ==
    ArticleGroups(s, p1, p2, GroupEnd(s, ChDai, ChKou, p2, FALSE))

ArticleFromNumber(s, p1) ==
    ArticleFromBranch(s, p1, GroupEnd(s, ChNo, <<>>, p1, FALSE))

\* ^第(N+)条(?:の(O+))?(?:第(O+)項)?(?:第(O+)号)? on the look-ahead text
ArticleMatch(s) == ArticleFromNumber(s, GroupEnd(s, ChDai, ChJou, 0, TRUE))

\* length of the run of name characters (cjk = FALSE) or of ideographs and
\* kana (cjk = TRUE) from position i, counted up to limit
RECURSIVE ClassRunLen(_, _, _, _)
ClassRunLen(s, i, cjk, limit) ==
    IF limit > 0 /\ i < Len(s) /\ (IF cjk THEN IsCjkKana(At(s, i))
                                          ELSE IsNameChar(At(s, i)))
    THEN 1 + ClassRunLen(s, i + 1, cjk, limit - 1)
    ELSE 0

\* \s
IsSpace(c) ==
    c \in {9, 10, 11, 12, 13, 32, 160, 5760, 8232, 8233, 8239, 8287, 12288, 65279}
          \cup 8192..8202

\* [^\s（）「」、。]
IsRefNameChar(c) ==
    c # 0 /\ ~IsSpace(c) /\ c \notin {65288, 65289, 12300, 12301, 12289, 12290}

\* 法|令|規則
ShortSuffixes == << <<27861>>, <<20196>>, <<35215, 21063>> >>

\* length of the run of [^\s（）「」、。] from position i
RECURSIVE RefNameRunLen(_, _)
RefNameRunLen(s, i) ==
    IF i < Len(s) /\ IsRefNameChar(At(s, i)) THEN 1 + RefNameRunLen(s, i + 1) ELSE 0

\* the position of the first ） at or after p, -1 if there is none
RECURSIVE FirstCloseFrom(_, _)
FirstCloseFrom(s, p) ==
    IF p >= Len(s) THEN -1
    ELSE IF At(s, p) = ParenClose[1] THEN p
    ELSE FirstCloseFrom(s, p + 1)

\* [^）]+?(?:法律|政令|省令|規則)第[^）]+?号 fills the text from p to c
\* exclusive: some kind after at least one character, 第 after it, at least
\* one character, and 号 last
NumBodyMatches(s, p, c) ==
    /\ c > p
    /\ At(s, c - 1) = ChGou[1]
    /\ \E q \in (p + 1)..(c - 1) :
          /\ FirstAltAt(s, AmendKinds, q) # <<>>
          /\ StartsWithAt(s, ChDai, q + Len(FirstAltAt(s, AmendKinds, q)))
          /\ q + Len(FirstAltAt(s, AmendKinds, q)) + 2 <= c - 1

FullNumUpTo(s, i, c) ==
    IF c # -1 /\ NumBodyMatches(s, i + 1, c)
    THEN [ok |-> TRUE, num |-> Substring(s, i + 1, c), end |-> c + 1]
    ELSE [ok |-> FALSE, num |-> Null, end |-> i]

\* （([^）]+?(?:法律|政令|省令|規則)第[^）]+?号)） matched at position i
FullNumAt(s, i) ==
    IF StartsWithAt(s, ParenOpen, i) THEN FullNumUpTo(s, i, FirstCloseFrom(s, i + 1))
    ELSE [ok |-> FALSE, num |-> Null, end |-> i]

\* what follows the lazy name run of a pattern, tried at position p:
\* (?:法|令|規則|条例)（...号） or の一部を改正する(法律|政令|省令|規則)
TailAt(pattern, s, p) ==
    IF pattern = "unknownLawWithNumPattern"
    THEN /\ FirstAltAt(s, LawSuffixes, p) # <<>>
         /\ LawNumAt(s, p + Len(FirstAltAt(s, LawSuffixes, p))).ok
    ELSE IF pattern = "amendmentPattern"
    THEN /\ StartsWithAt(s, AmendLiteral, p)
         /\ FirstAltAt(s, AmendKinds, p + Len(AmendLiteral)) # <<>>
    ELSE IF pattern = "fullRefPattern"
    THEN /\ FirstAltAt(s, LawSuffixes, p) # <<>>
         /\ FullNumAt(s, p + Len(FirstAltAt(s, LawSuffixes, p))).ok
    ELSE /\ FirstAltAt(s, ShortSuffixes, p) # <<>>
         /\ GroupEnd(s, ChDai, ChJou, p + Len(FirstAltAt(s, ShortSuffixes, p)), TRUE)
                > p + Len(FirstAltAt(s, ShortSuffixes, p))

\* {2,50}? at position i, having taken k characters of a run of length run:
\* the shortest length after which the rest of the pattern matches, 0 if none
RECURSIVE LazyNameLen(_, _, _, _, _)
LazyNameLen(pattern, s, i, k, run) ==
    IF k > run THEN 0
    ELSE IF TailAt(pattern, s, i + k) THEN k
    ELSE LazyNameLen(pattern, s, i, k + 1, run)

\* the groups of unknownLawWithNumPattern matched at i, its name ending at e
UnknownLawGroups(s, i, e) ==
    [ok |-> TRUE, g1 |-> Substring(s, i, e), g2 |-> LawNumAt(s, e).num,
     end |-> LawNumAt(s, e).end]

UnknownLawOfLen(s, i, k) ==
    IF k > 0
    THEN UnknownLawGroups(s, i, i + k + Len(FirstAltAt(s, LawSuffixes, i + k)))
    ELSE [ok |-> FALSE, g1 |-> Null, g2 |-> Null, end |-> i]

\* unknownLawWithNumPattern matched at position i: the lazy {2,50}? takes the
\* shortest run of name characters after which a suffix and a number follow
UnknownLawWithNumAt(s, i) ==
    UnknownLawOfLen(s, i,
                    LazyNameLen("unknownLawWithNumPattern", s, i, NameMinRun,
                                ClassRunLen(s, i, FALSE, NameMaxRun)))

AmendmentOfLen(s, i, k) ==
    IF k > 0
    THEN [ok |-> TRUE, g1 |-> Substring(s, i, i + k), g2 |-> Null,
          end |-> i + k + Len(AmendLiteral)
                  + Len(FirstAltAt(s, AmendKinds, i + k + Len(AmendLiteral)))]
    ELSE [ok |-> FALSE, g1 |-> Null, g2 |-> Null, end |-> i]

\* amendmentPattern matched at position i
AmendmentAt(s, i) ==
    AmendmentOfLen(s, i,
                   LazyNameLen("amendmentPattern", s, i, NameMinRun,
                               ClassRunLen(s, i, TRUE, NameMaxRun)))

\* the groups of fullRefPattern matched at i, its name ending at e
FullRefGroups(s, i, e) ==
    [ok |-> TRUE, g1 |-> Substring(s, i, e), g2 |-> FullNumAt(s, e).num,
     end |-> FullNumAt(s, e).end]

FullRefOfLen(s, i, k) ==
    IF k > 0 THEN FullRefGroups(s, i, i + k + Len(FirstAltAt(s, LawSuffixes, i + k)))
    ELSE [ok |-> FALSE, g1 |-> Null, g2 |-> Null, end |-> i]

\* fullRefPattern matched at position i: the lazy +? takes the shortest run
\* after which a suffix and a parenthesised number follow
FullRefAt(s, i) ==
    FullRefOfLen(s, i, LazyNameLen("fullRefPattern", s, i, 1, RefNameRunLen(s, i)))

\* the groups of shortRefPattern matched at i, its name ending at e
ShortRefGroups(s, i, e) ==
    [ok |-> TRUE, g1 |-> Substring(s, i, e), g2 |-> GroupText(s, ChDai, ChJou, e, TRUE),
     end |-> GroupEnd(s, ChDai, ChJou, e, TRUE)]

ShortRefOfLen(s, i, k) ==
    IF k > 0 THEN ShortRefGroups(s, i, i + k + Len(FirstAltAt(s, ShortSuffixes, i + k)))
    ELSE [ok |-> FALSE, g1 |-> Null, g2 |-> Null, end |-> i]

\* shortRefPattern matched at position i
ShortRefAt(s, i) ==
    ShortRefOfLen(s, i, LazyNameLen("shortRefPattern", s, i, 1, RefNameRunLen(s, i)))

PatternAt(pattern, s, i) ==
    IF pattern = "unknownLawWithNumPattern" THEN UnknownLawWithNumAt(s, i)
    ELSE IF pattern = "amendmentPattern" THEN AmendmentAt(s, i)
    ELSE IF pattern = "fullRefPattern" THEN FullRefAt(s, i)
    ELSE ShortRefAt(s, i)

\* the leftmost position >= i where pattern matches, -1 if none
RECURSIVE FirstMatchFrom(_, _, _)
FirstMatchFrom(pattern, s, i) ==
    IF i >= Len(s) THEN -1
    ELSE IF PatternAt(pattern, s, i).ok THEN i
    ELSE FirstMatchFrom(pattern, s, i + 1)

\* RegExp.prototype.exec in a while loop with the g flag: the successive
\* leftmost matches from lastIndex on, each resuming where the last ended
RECURSIVE ExecAll(_, _, _)
ExecMatch(pattern, s, i, m) ==
    <<[g1 |-> m.g1, g2 |-> m.g2, index |-> i, end |-> m.end]>>
        \o ExecAll(pattern, s, m.end)

ExecFrom(pattern, s, i) ==
    IF i = -1 THEN <<>> ELSE ExecMatch(pattern, s, i, PatternAt(pattern, s, i))

ExecAll(pattern, s, lastIndex) ==
    ExecFrom(pattern, s, FirstMatchFrom(pattern, s, lastIndex))

(***************************************************************************)
(* Law registry and the worker's lookup structures.                        *)
(***************************************************************************)
\* what Map.get returns for a missing key (undefined)
NoLaw == [id |-> Null, lawNum |-> Null, title |-> Null]

\* titleToLaw.get(title): Map.set keeps the last law with that title
TitleToLawGet(lawIdx, title) ==
    IF \E i \in 1..Len(lawIdx) : lawIdx[i].title = title
    THEN lawIdx[CHOOSE i \in 1..Len(lawIdx) :
                   /\ lawIdx[i].title = title
                   /\ \A j \in (i + 1)..Len(lawIdx) : lawIdx[j].title # title]
    ELSE NoLaw

\* lawIdMap.get(id): Map.set keeps the last law with that id
LawIdMapGet(lawIdx, id) ==
    IF \E i \in 1..Len(lawIdx) : lawIdx[i].id = id
    THEN lawIdx[CHOOSE i \in 1..Len(lawIdx) :
                   /\ lawIdx[i].id = id
                   /\ \A j \in (i + 1)..Len(lawIdx) : lawIdx[j].id # id]
    ELSE NoLaw

\* abbrevMap: the entries of the abbreviation table whose value carries a
\* law_id of the registry, in the table's key order
RECURSIVE BuildAbbrevMap(_, _)
BuildAbbrevMap(lawIdx, abbrs) ==
    IF abbrs = <<>> THEN <<>>
    ELSE LET e == Head(abbrs)
             law == LawIdMapGet(lawIdx, e.law_id)
         IN  (IF e.law_id # Null /\ law # NoLaw
              THEN <<[name |-> e.key, law |-> law]>>
              ELSE <<>>) \o BuildAbbrevMap(lawIdx, Tail(abbrs))

\* abbrevMap.get(name)
AbbrevMapGet(abbrevMap, name) ==
    IF \E i \in 1..Len(abbrevMap) : abbrevMap[i].name = name
    THEN abbrevMap[CHOOSE i \in 1..Len(abbrevMap) : abbrevMap[i].name = name].law
    ELSE NoLaw

\* titleToLaw.get(name) || abbrevMap.get(name)
ResolveName(lawIdx, abbrevMap, name) ==
    IF TitleToLawGet(lawIdx, name) # NoLaw THEN TitleToLawGet(lawIdx, name)
                                           ELSE AbbrevMapGet(abbrevMap, name)

\* stable insertion sort of the candidates by name length
RECURSIVE StableSort(_, _)
StableSort(names, descending) ==
    IF names = <<>> THEN <<>>
    ELSE LET n == Len(names)
             sorted == StableSort(SubSeq(names, 1, n - 1), descending)
             x == names[n]
             keep == Cardinality({i \in 1..Len(sorted) :
                                     IF descending
                                     THEN Len(sorted[i].name) >= Len(x.name)
                                     ELSE Len(sorted[i].name) <= Len(x.name)})
         IN  SubSeq(sorted, 1, keep) \o <<x>> \o SubSeq(sorted, keep + 1, Len(sorted))

\* mutant: sort((a, b) => a.name.length - b.name.length), shortest first
SortByNameLengthAsc(names) == StableSort(names, FALSE)

\* Array.prototype.sort((a, b) => b.name.length - a.name.length): stable,
\* longest names first
SortByNameLengthDesc(names) == StableSort(names, TRUE)

\* knownLawNames: every title, then every abbreviation, sorted
BuildKnownLawNames(lawIdx, abbrevMap) ==
    SortByNameLengthDesc(
        [i \in 1..Len(lawIdx) |-> [name |-> lawIdx[i].title, law |-> lawIdx[i]]]
        \o abbrevMap)

(***************************************************************************)
(* extractReferences.                                                      *)
(***************************************************************************)
Ref(fromLaw, toId, toTitle, toNum, article, paragraph, item, refType) ==
    [from_law_id |-> fromLaw.id, from_law_title |-> fromLaw.title,
     to_law_id |-> toId, to_law_title |-> toTitle, to_law_num |-> toNum,
     article |-> article, paragraph |-> paragraph, item |-> item,
     ref_type |-> refType]

\* mutant: the partial-match guard never rejects
PartialMatchNever(text, pos) == FALSE

\* the occurrence at pos is preceded by an ideograph or a kana
PartialMatch(text, pos) == pos > 0 /\ IsCjkKana(At(text, pos - 1))

\* mutant: the candidate's law is never taken for the document's own law
IsSelfNever(law, from) == FALSE

\* law.id === fromLaw.id
IsSelf(law, from) == law.id = from.id

\* mutant: the promulgation number after the name is not looked at
RefTypeIgnoringNum(artOk, numOk) == IF artOk THEN "article_ref" ELSE "law_name"

\* refType of a phase 1 hit: the number test comes last and overrides
RefTypeOf(artOk, numOk) ==
    IF numOk THEN "law_num_ref"
    ELSE IF artOk THEN "article_ref" ELSE "law_name"

\* mutant: phase 2 does not consult seen for a known law
Phase2UnseenAlways(seenIds, id) == TRUE

\* !seen.has(knownLaw.id) in phase 2
Phase2Unseen(seenIds, id) == id \notin seenIds

\* mutant: the unknown name is pushed at every match
UnknownUnseenAlways(seenKeys, key) == TRUE

\* !seen.has(key) for key = "unknown:" + lawName
UnknownUnseen(seenKeys, key) == key \notin seenKeys

\* the Reference pushed for a phase 1 hit, from artMatch and numMatch
KnownNameRefOf(fromLaw, name, law, art, numOk) ==
    Ref(fromLaw, law.id, name, law.lawNum,
        IF art.ok THEN ChDai \o art.g1 \o ChJou
                       \o (IF art.g2 # Null THEN ChNo \o art.g2 ELSE <<>>)
                  ELSE Null,
        IF art.ok /\ art.g3 # Null THEN ChDai \o art.g3 \o ChKou ELSE Null,
        IF art.ok /\ art.g4 # Null THEN ChDai \o art.g4 \o ChGou ELSE Null,
        RefTypeOf(art.ok, numOk))

\* the matches on afterText
KnownNameRefAfter(fromLaw, name, law, afterText) ==
    KnownNameRefOf(fromLaw, name, law, ArticleMatch(afterText),
                   LawNumAt(afterText, 0).ok)

\* the Reference of an accepted phase 1 occurrence of name at pos
KnownNameRef(text, fromLaw, name, law, pos) ==
    KnownNameRefAfter(fromLaw, name, law,
                      Substring(text, pos + Len(name), pos + Len(name) + LookAhead))

\* mutant: seen.add(law.id) is placed before the partial-match test
Phase1AtMarkingRejected(text, fromLaw, cand, acc, pos) ==
    IF \/ IsSelf(cand.law, fromLaw)
       \/ cand.law.id \in acc.seen
       \/ Len(cand.name) < MinNameLength
       \/ pos = -1
    THEN acc
    ELSE IF PartialMatch(text, pos)
    THEN [acc EXCEPT !.seen = @ \cup {cand.law.id}]
    ELSE [references |-> Append(acc.references,
                                KnownNameRef(text, fromLaw, cand.name, cand.law, pos)),
          seen |-> acc.seen \cup {cand.law.id}]

\* the phase 1 loop body once indexOf has returned pos
Phase1At(text, fromLaw, cand, acc, pos) ==
    IF \/ IsSelf(cand.law, fromLaw)
       \/ cand.law.id \in acc.seen
       \/ Len(cand.name) < MinNameLength
       \/ pos = -1
       \/ PartialMatch(text, pos)
    THEN acc
    ELSE [references |-> Append(acc.references,
                                KnownNameRef(text, fromLaw, cand.name, cand.law, pos)),
          seen |-> acc.seen \cup {cand.law.id}]

\* one iteration of the phase 1 loop; acc = [references, seen]
Phase1Step(text, fromLaw, cand, acc) ==
    Phase1At(text, fromLaw, cand, acc, IndexOf(text, cand.name))

RECURSIVE Phase1(_, _, _, _)
Phase1(text, fromLaw, known, acc) ==
    IF known = <<>> THEN acc
    ELSE Phase1(text, fromLaw, Tail(known), Phase1Step(text, fromLaw, Head(known), acc))

\* one iteration of the phase 2 loop, for the match m
Phase2Step(fromLaw, lawIdx, abbrevMap, m, acc) ==
    LET knownLaw == ResolveName(lawIdx, abbrevMap, m.g1)
        key == UnknownPrefix \o m.g1
    IN  IF knownLaw # NoLaw
        THEN IF Phase2Unseen(acc.seen, knownLaw.id) /\ knownLaw.id # fromLaw.id
             THEN [references |-> Append(acc.references,
                                         Ref(fromLaw, knownLaw.id, m.g1, knownLaw.lawNum,
                                             Null, Null, Null, "law_num_ref")),
                   seen |-> acc.seen \cup {knownLaw.id}]
             ELSE acc
        ELSE IF UnknownUnseen(acc.seen, key)
             THEN [references |-> Append(acc.references,
                                         Ref(fromLaw, Null, m.g1, m.g2,
                                             Null, Null, Null, "unknown_law")),
                   seen |-> acc.seen \cup {key}]
             ELSE acc

\* one iteration of the phase 3 loop, for the match m
Phase3Step(fromLaw, lawIdx, abbrevMap, m, acc) ==
    LET originalLaw == ResolveName(lawIdx, abbrevMap, m.g1)
    IN  IF /\ originalLaw # NoLaw
           /\ originalLaw.id \notin acc.seen
           /\ originalLaw.id # fromLaw.id
        THEN [references |-> Append(acc.references,
                                    Ref(fromLaw, originalLaw.id, m.g1, originalLaw.lawNum,
                                        Null, Null, Null, "amendment_ref")),
              seen |-> acc.seen \cup {originalLaw.id}]
        ELSE acc

RECURSIVE Phase2(_, _, _, _, _)
Phase2(fromLaw, lawIdx, abbrevMap, matches, acc) ==
    IF matches = <<>> THEN acc
    ELSE Phase2(fromLaw, lawIdx, abbrevMap, Tail(matches),
                Phase2Step(fromLaw, lawIdx, abbrevMap, Head(matches), acc))

RECURSIVE Phase3(_, _, _, _, _)
Phase3(fromLaw, lawIdx, abbrevMap, matches, acc) ==
    IF matches = <<>> THEN acc
    ELSE Phase3(fromLaw, lawIdx, abbrevMap, Tail(matches),
                Phase3Step(fromLaw, lawIdx, abbrevMap, Head(matches), acc))

\* extractReferences as a whole
ExtractReferences(text, fromLaw, known, lawIdx, abbrevMap) ==
    LET a1 == Phase1(text, fromLaw, known, [references |-> <<>>, seen |-> {}])
        a2 == Phase2(fromLaw, lawIdx, abbrevMap,
                     ExecAll("unknownLawWithNumPattern", text, 0), a1)
        a3 == Phase3(fromLaw, lawIdx, abbrevMap,
                     ExecAll("amendmentPattern", text, 0), a2)
    IN  a3.references

(***************************************************************************)
(* dedupeReferences.                                                       *)
(***************************************************************************)
\* mutant: the article is left out of the key
DedupeKeyWithoutArticle(ref) ==
    ref.from_law_id \o Colon
    \o (IF ref.to_law_id # Null THEN ref.to_law_id ELSE ref.to_law_title) \o Colon

\* `${ref.from_law_id}:${ref.to_law_id || ref.to_law_title}:${ref.article || ""}`
DedupeKey(ref) ==
    ref.from_law_id \o Colon
    \o (IF ref.to_law_id # Null THEN ref.to_law_id ELSE ref.to_law_title) \o Colon
    \o ref.article

\* mutant: a repeated key is dropped and forgotten (seen.delete), so that
\* its next occurrence is kept again
FilterStepForgetting(ref, acc) ==
    IF DedupeKey(ref) \in acc.seen
    THEN [kept |-> acc.kept, seen |-> acc.seen \ {DedupeKey(ref)}]
    ELSE [kept |-> Append(acc.kept, ref), seen |-> acc.seen \cup {DedupeKey(ref)}]

\* the filter callback on one record; acc = [kept, seen]
FilterStep(ref, acc) ==
    IF DedupeKey(ref) \in acc.seen
    THEN acc
    ELSE [kept |-> Append(acc.kept, ref), seen |-> acc.seen \cup {DedupeKey(ref)}]

RECURSIVE FilterFrom(_, _)
FilterFrom(refs, acc) ==
    IF refs = <<>> THEN acc.kept
    ELSE FilterFrom(Tail(refs), FilterStep(Head(refs), acc))

dedupeReferences(refs) == FilterFrom(refs, [kept |-> <<>>, seen |-> {}])

(***************************************************************************)
(* buildAdjacencyList and the breadth-first searches.                      *)
(***************************************************************************)
\* maxHops when the caller passes none (undefined)
NoCap == -1

\* the keys of a Map / the members of a Set in insertion order, after add(x)
Inserted(keys, x) ==
    IF \E i \in 1..Len(keys) : keys[i] = x THEN keys ELSE Append(keys, x)

\* buildAdjacencyList: outgoing[from] is the list of targets in insertion
\* order with their counts, incoming[to] the list of sources; a node without
\* an entry has the empty list
RECURSIVE BuildAdjacencyFrom(_, _)
BuildAdjacencyFrom(refs, adj) ==
    IF refs = <<>> THEN adj
    ELSE LET ref == Head(refs)
             f == ref.from_law_id
             t == ref.to_law_id
         IN  IF f = Null \/ t = Null
             THEN BuildAdjacencyFrom(Tail(refs), adj)
             ELSE BuildAdjacencyFrom(Tail(refs),
                    [outgoing |-> [adj.outgoing EXCEPT ![f] = Inserted(@, t)],
                     count |-> [adj.count EXCEPT ![<<f, t>>] = @ + 1],
                     incoming |-> [adj.incoming EXCEPT ![t] = Inserted(@, f)]])

\* mutant: the targets are kept in a Set, an edge counts once however often
\* it is cited
buildAdjacencyListWithoutCounts(refs, nodes) ==
    [BuildAdjacencyFrom(refs, [outgoing |-> [n \in nodes |-> <<>>],
                               count |-> [e \in nodes \X nodes |-> 0],
                               incoming |-> [n \in nodes |-> <<>>]])
        EXCEPT !.count = [e \in nodes \X nodes |-> Min(@[e], 1)]]

buildAdjacencyList(refs, nodes) ==
    BuildAdjacencyFrom(refs, [outgoing |-> [n \in nodes |-> <<>>],
                              count |-> [e \in nodes \X nodes |-> 0],
                              incoming |-> [n \in nodes |-> <<>>]])

\* mutant: nodes at the cap are still expanded
CapReachedLate(dist, cap) == cap # NoCap /\ dist > cap

\* mutant: the last level under the cap is not expanded
CapReachedEarly(dist, cap) == cap # NoCap /\ dist + 1 >= cap

\* dist >= maxHops (never true of undefined)
CapReached(dist, cap) == cap # NoCap /\ dist >= cap

\* mutant: distances[neighborId] is assigned outside the visited test
VisitNeighborAlwaysRecording(st, n, dist) ==
    IF n \notin st.visited
    THEN [visited |-> st.visited \cup {n},
          distances |-> (n :> (dist + 1)) @@ st.distances,
          queue |-> Append(st.queue, [id |-> n, dist |-> dist + 1])]
    ELSE [st EXCEPT !.distances = (n :> (dist + 1)) @@ st.distances]

\* the body of the loop over the neighbours; st = [visited, distances, queue]
VisitNeighbor(st, n, dist) ==
    IF n \notin st.visited
    THEN [visited |-> st.visited \cup {n},
          distances |-> (n :> (dist + 1)) @@ st.distances,
          queue |-> Append(st.queue, [id |-> n, dist |-> dist + 1])]
    ELSE st

RECURSIVE VisitNeighbors(_, _, _)
VisitNeighbors(st, neighbors, dist) ==
    IF neighbors = <<>> THEN st
    ELSE VisitNeighbors(VisitNeighbor(st, Head(neighbors), dist), Tail(neighbors), dist)

\* mutant: queue[0] instead of queue.shift()
BfsIterationKeepingHead(adj, st, cap) ==
    LET head == Head(st.queue)
        rest == st
    IN  IF CapReached(head.dist, cap) THEN rest
        ELSE VisitNeighbors(rest, adj[head.id], head.dist)

\* one iteration of while (queue.length > 0)
BfsIteration(adj, st, cap) ==
    LET head == Head(st.queue)
        rest == [st EXCEPT !.queue = Tail(st.queue)]
    IN  IF CapReached(head.dist, cap) THEN rest
        ELSE VisitNeighbors(rest, adj[head.id], head.dist)

RECURSIVE BfsLoop(_, _, _)
BfsLoop(adj, st, cap) ==
    IF st.queue = <<>> THEN st.distances
    ELSE BfsLoop(adj, BfsIteration(adj, st, cap), cap)

\* computeReachability(startId, outgoing, maxHops)
computeReachability(start, outgoing, cap) ==
    BfsLoop(outgoing, [visited |-> {start}, distances |-> <<>>,
                       queue |-> <<[id |-> start, dist |-> 0]>>], cap)

\* mutant: the reverse search ignores the hop cap
computeReverseReachabilityUncapped(target, incoming, cap) ==
    BfsLoop(incoming, [visited |-> {target}, distances |-> <<>>,
                       queue |-> <<[id |-> target, dist |-> 0]>>], NoCap)

\* computeReverseReachability(targetId, incoming, maxHops)
computeReverseReachability(target, incoming, cap) ==
    BfsLoop(incoming, [visited |-> {target}, distances |-> <<>>,
                       queue |-> <<[id |-> target, dist |-> 0]>>], cap)

(***************************************************************************)
(* findShortestPath.                                                       *)
(***************************************************************************)
\* mutant: return path (the target is not appended)
RECURSIVE PathScanDroppingTarget(_, _, _, _)
PathScanDroppingTarget(neighbors, toId, path, st) ==
    IF neighbors = <<>> THEN st
    ELSE IF Head(neighbors) = toId THEN [st EXCEPT !.found = path]
    ELSE PathScanDroppingTarget(Tail(neighbors), toId, path,
           IF Head(neighbors) \in st.visited THEN st
           ELSE [st EXCEPT !.visited = @ \cup {Head(neighbors)},
                           !.queue = Append(@, [id |-> Head(neighbors),
                                                path |-> Append(path, Head(neighbors))])])

\* the loop over the neighbours of a dequeued node; st = [found, queue, visited]
RECURSIVE PathScan(_, _, _, _)
PathScan(neighbors, toId, path, st) ==
    IF neighbors = <<>> THEN st
    ELSE IF Head(neighbors) = toId THEN [st EXCEPT !.found = Append(path, toId)]
    ELSE PathScan(Tail(neighbors), toId, path,
           IF Head(neighbors) \in st.visited THEN st
           ELSE [st EXCEPT !.visited = @ \cup {Head(neighbors)},
                           !.queue = Append(@, [id |-> Head(neighbors),
                                                path |-> Append(path, Head(neighbors))])])

\* while (queue.length > 0); Null is the null returned after the loop
RECURSIVE PathLoop(_, _, _)
PathLoop(outgoing, toId, st) ==
    IF st.found # Null THEN st.found
    ELSE IF st.queue = <<>> THEN Null
    ELSE PathLoop(outgoing, toId,
                  PathScan(outgoing[Head(st.queue).id], toId, Head(st.queue).path,
                           [st EXCEPT !.queue = Tail(@)]))

\* findShortestPath(fromId, toId, outgoing)
findShortestPath(fromId, toId, outgoing) ==
    IF fromId = toId THEN <<fromId>>
    ELSE PathLoop(outgoing, toId,
                  [found |-> Null, visited |-> {fromId},
                   queue |-> <<[id |-> fromId, path |-> <<fromId>>]>>])

(***************************************************************************)
(* buildBacklinks.                                                         *)
(***************************************************************************)
\* the position of key k in an insertion-ordered Map, 0 if absent
IndexOfKey(entries, k) ==
    IF \E i \in 1..Len(entries) : entries[i].key = k
    THEN CHOOSE i \in 1..Len(entries) : entries[i].key = k
    ELSE 0

\* mutant: fromMap.set(ref.from_law_id, 1)
CountIntoOnce(fromMap, f) ==
    IF IndexOfKey(fromMap, f) = 0
    THEN Append(fromMap, [key |-> f, count |-> 1])
    ELSE fromMap

\* fromMap.set(ref.from_law_id, (fromMap.get(ref.from_law_id) || 0) + 1)
CountInto(fromMap, f) ==
    IF IndexOfKey(fromMap, f) = 0
    THEN Append(fromMap, [key |-> f, count |-> 1])
    ELSE [fromMap EXCEPT ![IndexOfKey(fromMap, f)].count = @ + 1]

\* the counting loop: countMap maps a target to the Map of its referrers
RECURSIVE CountReferences(_, _)
CountReferences(refs, countMap) ==
    IF refs = <<>> THEN countMap
    ELSE CountReferences(Tail(refs),
           IF Head(refs).to_law_id = Null THEN countMap
           ELSE IF IndexOfKey(countMap, Head(refs).to_law_id) = 0
           THEN Append(countMap, [key |-> Head(refs).to_law_id,
                                  froms |-> CountInto(<<>>, Head(refs).from_law_id)])
           ELSE [countMap EXCEPT ![IndexOfKey(countMap, Head(refs).to_law_id)].froms =
                                    CountInto(@, Head(refs).from_law_id)])

\* mutant: the seeding loop stops one law early
SeedBacklinksWithoutLast(laws) ==
    [i \in 1..(Len(laws) - 1) |->
        [law_id |-> laws[i].id, law_title |-> laws[i].title, referenced_by |-> <<>>]]

\* the seeding loop: one entry per law of the registry, in registry order
SeedBacklinks(laws) ==
    [i \in 1..Len(laws) |->
        [law_id |-> laws[i].id, law_title |-> laws[i].title, referenced_by |-> <<>>]]

\* mutant: a sort that is not stable, equal keys come out in reverse order
RECURSIVE SortedIndicesTiesReversed(_)
SortedIndicesTiesReversed(keys) ==
    IF keys = <<>> THEN <<>>
    ELSE LET n == Len(keys)
             prev == SortedIndicesTiesReversed(SubSeq(keys, 1, n - 1))
             keep == Cardinality({i \in 1..(n - 1) : keys[i] > keys[n]})
         IN  SubSeq(prev, 1, keep) \o <<n>> \o SubSeq(prev, keep + 1, n - 1)

\* the order Array.prototype.sort((a, b) => b - a) gives the positions of
\* keys: stable, largest key first
RECURSIVE SortedIndicesDesc(_)
SortedIndicesDesc(keys) ==
    IF keys = <<>> THEN <<>>
    ELSE LET n == Len(keys)
             prev == SortedIndicesDesc(SubSeq(keys, 1, n - 1))
             keep == Cardinality({i \in 1..(n - 1) : keys[i] >= keys[n]})
         IN  SubSeq(prev, 1, keep) \o <<n>> \o SubSeq(prev, keep + 1, n - 1)

\* the referrers pushed for one target: those found in laws, then sorted
PushReferrers(fromMap, laws) ==
    [i \in 1..Len(fromMap) |->
        [law_id |-> fromMap[i].key,
         law_title |-> LawIdMapGet(laws, fromMap[i].key).title,
         count |-> fromMap[i].count]]

ReferencedBy(fromMap, laws) ==
    LET pushed == PushReferrers(SelectSeq(fromMap,
                                   LAMBDA e : LawIdMapGet(laws, e.key) # NoLaw), laws)
        order == SortedIndicesDesc([i \in 1..Len(pushed) |-> pushed[i].count])
    IN  [i \in 1..Len(pushed) |-> pushed[order[i]]]

\* buildBacklinks(references, laws).backlinks, in key order
buildBacklinks(refs, laws) ==
    LET countMap == CountReferences(refs, <<>>)
    IN  [i \in 1..Len(SeedBacklinks(laws)) |->
            IF IndexOfKey(countMap, SeedBacklinks(laws)[i].law_id) = 0
            THEN SeedBacklinks(laws)[i]
            ELSE [SeedBacklinks(laws)[i] EXCEPT !.referenced_by =
                    ReferencedBy(countMap[IndexOfKey(countMap, SeedBacklinks(laws)[i].law_id)].froms,
                                 laws)]]

(***************************************************************************)
(* The selection of the important laws.                                    *)
(***************************************************************************)
\* slice(0, 100)
ImportantCount == 100

\* nodes.filter(n => n.out_degree > 0 || n.in_degree > 0)
FilterActive(nodes) == SelectSeq(nodes, LAMBDA n : n.out_degree > 0 \/ n.in_degree > 0)

\* active.sort((a, b) => b.in_degree - a.in_degree)
SortByInDegree(active) ==
    [i \in 1..Len(active) |->
        active[SortedIndicesDesc([j \in 1..Len(active) |-> active[j].in_degree])[i]]]

\* activeNodes.sort(...).slice(0, k)
SelectImportant(active, k) == Slice(SortByInDegree(active), 0, k)

(***************************************************************************)
(* The coordinator's chunking of its work list.                            *)
(***************************************************************************)
\* mutant: Math.floor instead of Math.ceil (at least 1)
ChunkSizeRoundedDown(n, w) == IF n \div w >= 1 THEN n \div w ELSE 1

\* Math.ceil(xmlFiles.length / NUM_WORKERS)
ChunkSize(n, w) == (n + w - 1) \div w

\* for (let i = 0; i < xmlFiles.length; i += chunkSize) chunks.push(slice(i, i + chunkSize))
RECURSIVE ChunksFrom(_, _, _)
ChunksFrom(xs, i, chunkSize) ==
    IF i >= Len(xs) THEN <<>>
    ELSE <<Slice(xs, i, i + chunkSize)>> \o ChunksFrom(xs, i + chunkSize, chunkSize)

MakeChunksOf(xs, w) == ChunksFrom(xs, 0, ChunkSize(Len(xs), w))

(***************************************************************************)
(* The workers' loops and the coordinator's runWorker.                     *)
(***************************************************************************)
\* mutant: the try block encloses the loop, a failing document ends it and
\* the references collected so far are dropped
ProcessDocumentDroppingAll(doc, lawIdx, abbrs, acc) ==
    IF LawIdMapGet(lawIdx, doc.id) = NoLaw THEN acc
    ELSE IF ~doc.readable THEN <<>>
    ELSE acc \o ExtractReferences(doc.text, LawIdMapGet(lawIdx, doc.id),
                                  BuildKnownLawNames(lawIdx, BuildAbbrevMap(lawIdx, abbrs)),
                                  lawIdx, BuildAbbrevMap(lawIdx, abbrs))

\* the extraction worker's loop body for one document: no law for the file
\* name, continue; readFileSync or the extraction throws, caught and ignored;
\* otherwise allReferences.push(...refs)
ProcessDocument(doc, lawIdx, abbrs, acc) ==
    IF LawIdMapGet(lawIdx, doc.id) = NoLaw THEN acc
    ELSE IF ~doc.readable THEN acc
    ELSE acc \o ExtractReferences(doc.text, LawIdMapGet(lawIdx, doc.id),
                                  BuildKnownLawNames(lawIdx, BuildAbbrevMap(lawIdx, abbrs)),
                                  lawIdx, BuildAbbrevMap(lawIdx, abbrs))

\* the graph worker's loop body for one law (no maxHops is passed)
ProcessLaw(node, adj, acc) ==
    Append(acc, [id |-> node.id,
                 reachable_from |-> computeReachability(node.id, adj.outgoing, NoCap),
                 reachable_to |-> computeReverseReachability(node.id, adj.incoming, NoCap)])

\* the nodes of main with their degrees, filtered to the active ones
ActiveNodesOf(laws, adj) ==
    FilterActive([i \in 1..Len(laws) |->
                    [id |-> laws[i].id, out_degree |-> Len(adj.outgoing[laws[i].id]),
                     in_degree |-> Len(adj.incoming[laws[i].id])]])

\* mutant: the exit handler resolves whatever the exit code
OnExitAlwaysResolving(p, code) ==
    IF p.state # "pending" THEN p
    ELSE [p EXCEPT !.state = "fulfilled"]

\* child.on("exit"): code === 0 resolves with result, any other code rejects;
\* a settled promise stays as it is
OnExit(p, code) ==
    IF p.state # "pending" THEN p
    ELSE IF code = 0 THEN [p EXCEPT !.state = "fulfilled"]
    ELSE [p EXCEPT !.state = "rejected"]

\* child.on("message") for a message of type "result"
OnResult(p, data) == [p EXCEPT !.result = data, !.received = TRUE]

(***************************************************************************)
(* Inputs of the extraction: registries, abbreviation tables, documents.   *)
(***************************************************************************)
Minpou == <<27665, 27861>>                                  \* 民法
Kaishahou == <<20250, 31038, 27861>>                        \* 会社法
Shikouhou == <<26045, 34892, 27861>>                        \* 施行法
Tokkyohou == <<29305, 35377, 27861>>                        \* 特許法
Minshi == <<27665, 26045>>                                  \* 民施
Min1 == <<27665>>                                           \* 民
Kaisha == <<20250, 31038>>                                  \* 会社
Kaiseimae == <<25913, 27491, 21069>>                        \* 改正前
Touten == <<12289>>                                         \* 、
Dai1Jou == <<31532, 19968, 26465>>                          \* 第一条
Dai3Jou == <<31532, 19977, 26465>>                          \* 第三条
\* 明治二十九年法律第八十九号
Meiji29Hou89 == <<26126, 27835, 20108, 21313, 20061, 24180, 27861, 24459,
                  31532, 20843, 21313, 20061, 21495>>
\* 平成十七年法律第八十六号
Heisei17Hou86 == <<24179, 25104, 21313, 19971, 24180, 27861, 24459,
                   31532, 20843, 21313, 20845, 21495>>
\* 明治三十一年法律第十一号
Meiji31Hou11 == <<26126, 27835, 19977, 21313, 19968, 24180, 27861, 24459,
                  31532, 21313, 19968, 21495>>
\* の一部を改正する法律
IchibuKaisei == AmendLiteral \o AmendKinds[1]

IdA == <<65>>
IdB == <<66>>
IdC == <<67>>

LawA == [id |-> IdA, lawNum |-> Meiji29Hou89, title |-> Minpou]
LawB == [id |-> IdB, lawNum |-> Heisei17Hou86, title |-> Kaishahou]
LawC == [id |-> IdC, lawNum |-> Meiji31Hou11, title |-> Minpou \o Shikouhou]

\* a registry with the abbreviation table handed to the worker: each entry
\* is a key and the law_id of its value (Null when the value has none)
Worlds ==
    { [lawIndex |-> <<LawA, LawB>>, abbreviations |-> <<>>],
      [lawIndex |-> <<LawA, LawB, LawC>>,
       abbreviations |-> << [key |-> Min1, law_id |-> IdA],
                            [key |-> Minshi, law_id |-> IdC],
                            [key |-> Kaisha, law_id |-> IdB],
                            [key |-> Kaishahou, law_id |-> IdB] >>],
      [lawIndex |-> <<LawA, LawB, LawC>>,
       abbreviations |-> << [key |-> Minshi, law_id |-> Null],
                            [key |-> Kaisha, law_id |-> Null] >>] }

Tokens == << Minpou, Kaishahou, Kaisha, Shikouhou, Tokkyohou, Minshi, Kaiseimae,
             Touten, Dai1Jou, ParenOpen \o Meiji29Hou89 \o ParenClose, IchibuKaisei >>

\* an earlier occurrence of a registry title inside a longer word
Leads == { <<>>, Kaiseimae \o Minpou \o Touten, Kaiseimae \o Kaishahou \o Touten }

RECURSIVE TokenTexts(_)
TokenTexts(n) ==
    IF n = 0 THEN { <<>> }
    ELSE LET shorter == TokenTexts(n - 1)
         IN  shorter \cup { t \o Tokens[k] : t \in shorter, k \in 1..Len(Tokens) }

\* 民法（明治二十九年法律第八十九号）第三条
ScenarioText == Minpou \o ParenOpen \o Meiji29Hou89 \o ParenClose \o Dai3Jou

\* 改正前民法第一条
GuardText == Kaiseimae \o Minpou \o Dai1Jou

\* 特許法（明治二十九年法律第八十九号）、特許法（平成十七年法律第八十六号）
RepeatedUnknownText ==
    Tokkyohou \o ParenOpen \o Meiji29Hou89 \o ParenClose \o Touten
        \o Tokkyohou \o ParenOpen \o Heisei17Hou86 \o ParenClose

\* 改正前民法施行法、民施
GuardThenAbbrevText == Kaiseimae \o Minpou \o Shikouhou \o Touten \o Minshi

Texts == { l \o t : l \in Leads, t \in TokenTexts(MaxTokens) }
         \cup { ScenarioText, GuardText, RepeatedUnknownText, GuardThenAbbrevText }

(***************************************************************************)
(* State.                                                                  *)
(***************************************************************************)
VARIABLES
    \* the extraction worker, on one document
    lawIndex, abbreviations, fromLaw, xmlContent,
    abbrevMap, knownLawNames, references, seen, pc,
    \* the coordinator's global deduplication
    allReferences, uniqueRefs, rerunRefs, dedupePc,
    \* the graph build and the reachability of one law
    graphRefs, adjacency, startId, maxHops, reachableFrom, reachableTo,
    higherHops, reachableFromHigher, graphPc,
    \* buildBacklinks
    backlinks,
    \* the selection of the important laws
    activeNodes, topCount, importantLaws, selectPc,
    \* the path finder
    pathFrom, pathTo, foundPath,
    \* the coordinator's chunking
    itemList, workerCount, chunkList, chunkPc,
    \* a parallel phase: the coordinator and its workers
    runKind, xmlFiles, numWorkers, chunks, child, promise, mainPc, written,
    reachability,
    \* the coordinator's loadAbbreviations
    abbrFile, abbrTable,
    \* one breadth-first search, loop iteration by loop iteration
    bfsKind, queue, visited, distances, enqueued

extractVars == <<lawIndex, abbreviations, fromLaw, xmlContent,
                 abbrevMap, knownLawNames, references, seen, pc>>

dedupeVars == <<allReferences, uniqueRefs, rerunRefs, dedupePc>>

graphVars == <<graphRefs, adjacency, startId, maxHops, reachableFrom, reachableTo,
               higherHops, reachableFromHigher, graphPc>>

backlinkVars == <<backlinks>>

selectVars == <<activeNodes, topCount, importantLaws, selectPc>>

pathVars == <<pathFrom, pathTo, foundPath>>

chunkVars == <<itemList, workerCount, chunkList, chunkPc>>

runVars == <<runKind, xmlFiles, numWorkers, chunks, child, promise, mainPc, written,
             reachability>>

payloadVars == <<abbrFile, abbrTable>>

bfsVars == <<bfsKind, queue, visited, distances, enqueued>>

lastVars == <<payloadVars, bfsVars>>

laterVars == <<backlinkVars, selectVars, pathVars, chunkVars, runVars, lastVars>>

vars == <<extractVars, dedupeVars, graphVars, laterVars>>

\* the parts of the state a specification does not exercise
ExtractIdle ==
    /\ lawIndex = <<>>
    /\ abbreviations = <<>>
    /\ fromLaw = NoLaw
    /\ xmlContent = <<>>
    /\ abbrevMap = <<>>
    /\ knownLawNames = <<>>
    /\ references = <<>>
    /\ seen = {}
    /\ pc = "idle"

DedupeIdle ==
    /\ allReferences = <<>>
    /\ uniqueRefs = <<>>
    /\ rerunRefs = <<>>
    /\ dedupePc = "idle"

GraphIdle ==
    /\ graphRefs = <<>>
    /\ adjacency = <<>>
    /\ startId = Null
    /\ maxHops = 0
    /\ reachableFrom = <<>>
    /\ reachableTo = <<>>
    /\ higherHops = 0
    /\ reachableFromHigher = <<>>
    /\ graphPc = "idle"

BacklinkIdle == backlinks = <<>>

SelectIdle ==
    /\ activeNodes = <<>>
    /\ topCount = 0
    /\ importantLaws = <<>>
    /\ selectPc = "idle"

PathIdle ==
    /\ pathFrom = Null
    /\ pathTo = Null
    /\ foundPath = <<>>

ChunkIdle ==
    /\ itemList = <<>>
    /\ workerCount = 0
    /\ chunkList = <<>>
    /\ chunkPc = "idle"

RunIdle ==
    /\ runKind = "idle"
    /\ xmlFiles = <<>>
    /\ numWorkers = 0
    /\ chunks = <<>>
    /\ child = <<>>
    /\ promise = <<>>
    /\ mainPc = "idle"
    /\ written = <<>>
    /\ reachability = <<>>

PayloadIdle ==
    /\ abbrFile = <<>>
    /\ abbrTable = <<>>

BfsIdle ==
    /\ bfsKind = "idle"
    /\ queue = <<>>
    /\ visited = {}
    /\ distances = <<>>
    /\ enqueued = <<>>

LastIdle == PayloadIdle /\ BfsIdle

LaterIdle == BacklinkIdle /\ SelectIdle /\ PathIdle /\ ChunkIdle /\ RunIdle /\ LastIdle

(***************************************************************************)
(* The extraction worker's handling of one document.                       *)
(***************************************************************************)
ExtractInit ==
    /\ \E w \in Worlds :
          /\ lawIndex = w.lawIndex
          /\ abbreviations = w.abbreviations
    /\ \E i \in 1..Len(lawIndex) : fromLaw = LawIdMapGet(lawIndex, lawIndex[i].id)
    /\ xmlContent \in Texts
    /\ abbrevMap = <<>>
    /\ knownLawNames = <<>>
    /\ references = <<>>
    /\ seen = {}
    /\ pc = "message"
    /\ DedupeIdle
    /\ GraphIdle
    /\ LaterIdle

\* process.on("message"): the lookup maps and the sorted candidate list
BuildMaps ==
    /\ pc = "message"
    /\ abbrevMap' = BuildAbbrevMap(lawIndex, abbreviations)
    /\ knownLawNames' = BuildKnownLawNames(lawIndex, abbrevMap')
    /\ pc' = "phase1"
    /\ UNCHANGED <<lawIndex, abbreviations, fromLaw, xmlContent, references, seen>>
    /\ UNCHANGED <<dedupeVars, graphVars, laterVars>>

\* extractReferences, phase 1: the known-name scan
RunPhase1 ==
    /\ pc = "phase1"
    /\ LET acc == Phase1(xmlContent, fromLaw, knownLawNames,
                         [references |-> <<>>, seen |-> {}])
       IN  /\ references' = acc.references
           /\ seen' = acc.seen
    /\ pc' = "phase2"
    /\ UNCHANGED <<lawIndex, abbreviations, fromLaw, xmlContent, abbrevMap, knownLawNames>>
    /\ UNCHANGED <<dedupeVars, graphVars, laterVars>>

\* extractReferences, phase 2: name followed by a promulgation number
RunPhase2 ==
    /\ pc = "phase2"
    /\ LET acc == Phase2(fromLaw, lawIndex, abbrevMap,
                         ExecAll("unknownLawWithNumPattern", xmlContent, 0),
                         [references |-> references, seen |-> seen])
       IN  /\ references' = acc.references
           /\ seen' = acc.seen
    /\ pc' = "phase3"
    /\ UNCHANGED <<lawIndex, abbreviations, fromLaw, xmlContent, abbrevMap, knownLawNames>>
    /\ UNCHANGED <<dedupeVars, graphVars, laterVars>>

\* extractReferences, phase 3: the amendment pattern, then return
RunPhase3 ==
    /\ pc = "phase3"
    /\ LET acc == Phase3(fromLaw, lawIndex, abbrevMap,
                         ExecAll("amendmentPattern", xmlContent, 0),
                         [references |-> references, seen |-> seen])
       IN  /\ references' = acc.references
           /\ seen' = acc.seen
    /\ pc' = "returned"
    /\ UNCHANGED <<lawIndex, abbreviations, fromLaw, xmlContent, abbrevMap, knownLawNames>>
    /\ UNCHANGED <<dedupeVars, graphVars, laterVars>>

ExtractNext == BuildMaps \/ RunPhase1 \/ RunPhase2 \/ RunPhase3

SpecExtract == ExtractInit /\ [][ExtractNext]_vars

(***************************************************************************)
(* The coordinator's deduplication of the merged reference list.           *)
(***************************************************************************)
\* records as the workers emit them, some sharing a key
RefPool ==
    { Ref(LawB, IdA, Minpou, Meiji29Hou89, Null, Null, Null, "law_name"),
      Ref(LawB, IdA, Min1, Meiji29Hou89, Null, Null, Null, "law_num_ref"),
      Ref(LawB, IdA, Minpou, Meiji29Hou89, Dai1Jou, Null, Null, "article_ref"),
      Ref(LawB, Null, Tokkyohou, Meiji29Hou89, Null, Null, Null, "unknown_law"),
      Ref(LawB, Null, Tokkyohou, Heisei17Hou86, Null, Null, Null, "unknown_law"),
      Ref(LawA, IdB, Kaishahou, Heisei17Hou86, Null, Null, Null, "law_name") }

RECURSIVE SeqsUpTo(_, _)
SeqsUpTo(S, n) ==
    IF n = 0 THEN { <<>> }
    ELSE LET shorter == SeqsUpTo(S, n - 1)
         IN  shorter \cup { Append(q, x) : q \in shorter, x \in S }

DedupeInit ==
    /\ allReferences \in SeqsUpTo(RefPool, MaxRefs)
    /\ uniqueRefs = <<>>
    /\ rerunRefs = <<>>
    /\ dedupePc = "merged"
    /\ ExtractIdle
    /\ GraphIdle
    /\ LaterIdle

\* const uniqueRefs = dedupeReferences(allReferences)
Dedupe ==
    /\ dedupePc = "merged"
    /\ uniqueRefs' = dedupeReferences(allReferences)
    /\ dedupePc' = "deduped"
    /\ UNCHANGED <<allReferences, rerunRefs, extractVars, graphVars, laterVars>>

\* dedupeReferences applied to its own output
DedupeAgain ==
    /\ dedupePc = "deduped"
    /\ rerunRefs' = dedupeReferences(uniqueRefs)
    /\ dedupePc' = "rerun"
    /\ UNCHANGED <<allReferences, uniqueRefs, extractVars, graphVars, laterVars>>

DedupeNext == Dedupe \/ DedupeAgain

SpecDedupe == DedupeInit /\ [][DedupeNext]_vars

(***************************************************************************)
(* The graph build and the reachability of one law.                        *)
(***************************************************************************)
NodeIds == {IdA, IdB, IdC}

EdgePool == { [from_law_id |-> f, to_law_id |-> t] : f \in NodeIds, t \in NodeIds }

HopCaps == 0..MaxHopCap \cup {NoCap}

GraphInit ==
    /\ graphRefs \in SeqsUpTo(EdgePool, MaxEdges)
    /\ startId \in NodeIds
    /\ maxHops \in HopCaps
    /\ adjacency = <<>>
    /\ reachableFrom = <<>>
    /\ reachableTo = <<>>
    /\ higherHops = 0
    /\ reachableFromHigher = <<>>
    /\ graphPc = "loaded"
    /\ ExtractIdle
    /\ DedupeIdle
    /\ LaterIdle

\* const { outgoing, incoming } = buildAdjacencyList(references)
BuildGraph ==
    /\ graphPc = "loaded"
    /\ adjacency' = buildAdjacencyList(graphRefs, NodeIds)
    /\ graphPc' = "built"
    /\ UNCHANGED <<graphRefs, startId, maxHops, reachableFrom, reachableTo,
                   higherHops, reachableFromHigher, extractVars, dedupeVars, laterVars>>

\* the loop body for one law: both searches under maxHops
ComputeLaw ==
    /\ graphPc = "built"
    /\ reachableFrom' = computeReachability(startId, adjacency.outgoing, maxHops)
    /\ reachableTo' = computeReverseReachability(startId, adjacency.incoming, maxHops)
    /\ graphPc' = "computed"
    /\ UNCHANGED <<graphRefs, adjacency, startId, maxHops,
                   higherHops, reachableFromHigher, extractVars, dedupeVars, laterVars>>

\* the forward search of the same law under a larger cap
ComputeHigher ==
    /\ graphPc = "computed"
    /\ maxHops # NoCap
    /\ \E h \in (maxHops + 1)..(MaxHopCap + 1) :
          /\ higherHops' = h
          /\ reachableFromHigher' = computeReachability(startId, adjacency.outgoing, h)
    /\ graphPc' = "compared"
    /\ UNCHANGED <<graphRefs, adjacency, startId, maxHops, reachableFrom, reachableTo,
                   extractVars, dedupeVars, laterVars>>

GraphNext == BuildGraph \/ ComputeLaw \/ ComputeHigher

SpecGraph == GraphInit /\ [][GraphNext]_vars

(***************************************************************************)
(* A parallel phase: the coordinator forks one worker per chunk, each      *)
(* worker runs its loop and exits, the coordinator joins and writes.       *)
(***************************************************************************)
\* documents: the file's law id, its text, and whether reading it succeeds
DocPool ==
    { [id |-> IdB, text |-> ScenarioText, readable |-> TRUE],
      [id |-> IdB, text |-> Minpou, readable |-> TRUE],
      [id |-> IdA, text |-> Kaishahou \o Dai1Jou, readable |-> TRUE],
      [id |-> IdA, text |-> Kaishahou \o Dai1Jou, readable |-> FALSE],
      [id |-> IdC, text |-> Minpou, readable |-> TRUE] }

\* the reference lists of the graph runs
GraphRunRefs ==
    { <<>>,
      << [from_law_id |-> IdA, to_law_id |-> IdB] >>,
      << [from_law_id |-> IdA, to_law_id |-> IdB],
         [from_law_id |-> IdB, to_law_id |-> IdC] >> }

RunInit ==
    /\ \/ /\ runKind = "extraction"
          /\ lawIndex = <<LawA, LawB>>
          /\ xmlFiles \in SeqsUpTo(DocPool, MaxDocs)
          /\ graphRefs = <<>>
       \/ /\ runKind = "reachability"
          /\ lawIndex = <<LawA, LawB, LawC>>
          /\ xmlFiles = <<>>
          /\ graphRefs \in GraphRunRefs
    /\ numWorkers \in 1..MaxWorkers
    /\ chunks = <<>> /\ child = <<>> /\ promise = <<>>
    /\ mainPc = "main"
    /\ written = <<>>
    /\ reachability = <<>>
    /\ abbreviations = <<>> /\ fromLaw = NoLaw /\ xmlContent = <<>>
    /\ abbrevMap = <<>> /\ knownLawNames = <<>> /\ references = <<>>
    /\ seen = {} /\ pc = "idle"
    /\ DedupeIdle
    /\ adjacency = <<>> /\ startId = Null /\ maxHops = 0
    /\ reachableFrom = <<>> /\ reachableTo = <<>>
    /\ higherHops = 0 /\ reachableFromHigher = <<>> /\ graphPc = "idle"
    /\ BacklinkIdle /\ SelectIdle /\ PathIdle /\ ChunkIdle /\ LastIdle

\* what no action of a run changes
runFixed == <<runKind, numWorkers, lawIndex, abbreviations, graphRefs,
              fromLaw, xmlContent, abbrevMap, knownLawNames, references, seen, pc,
              rerunRefs, dedupePc, startId, maxHops, reachableFrom, reachableTo,
              higherHops, reachableFromHigher, graphPc, selectVars, pathVars, chunkVars,
              lastVars>>

Forked(work) ==
    /\ chunks' = MakeChunksOf(work, numWorkers)
    /\ child' = [w \in 1..Len(chunks') |->
                    [status |-> "running", processed |-> 0, results |-> <<>>, code |-> 0]]
    /\ promise' = [w \in 1..Len(chunks') |->
                      [state |-> "pending", result |-> <<>>, received |-> FALSE]]
    /\ mainPc' = "awaiting"

\* main up to await Promise.all: the work list is chunked and one worker is
\* forked per chunk; the graph run returns at once without references, and
\* writes nodes.json and edges.json before it forks
StartRun ==
    /\ mainPc = "main"
    /\ \/ /\ runKind = "extraction"
          /\ Forked(xmlFiles)
          /\ UNCHANGED <<xmlFiles, adjacency, written>>
       \/ /\ runKind = "reachability"
          /\ graphRefs = <<>>
          /\ mainPc' = "returned"
          /\ UNCHANGED <<xmlFiles, adjacency, written, chunks, child, promise>>
       \/ /\ runKind = "reachability"
          /\ graphRefs # <<>>
          /\ adjacency' = buildAdjacencyList(graphRefs, NodeIds)
          /\ xmlFiles' = ActiveNodesOf(lawIndex, adjacency')
          /\ Forked(xmlFiles')
          /\ written' = <<"nodes.json", "edges.json">>
    /\ UNCHANGED <<runFixed, allReferences, uniqueRefs, backlinks, reachability>>

\* one iteration of a worker's loop over its chunk
WorkerStep(w) ==
    /\ child[w].status = "running"
    /\ child[w].processed < Len(chunks[w])
    /\ child' = [child EXCEPT
         ![w].processed = @ + 1,
         ![w].results =
            IF runKind = "extraction"
            THEN ProcessDocument(chunks[w][child[w].processed + 1], lawIndex,
                                 abbreviations, @)
            ELSE ProcessLaw(chunks[w][child[w].processed + 1], adjacency, @)]
    /\ UNCHANGED <<runFixed, xmlFiles, adjacency, chunks, promise, mainPc, written,
                   allReferences, uniqueRefs, backlinks, reachability>>

\* the end of the worker's handler: process.send of the result, then
\* process.exit(0); the coordinator has the message before the exit event
\* (delivered), or the process is gone before the message left it
WorkerFinish(w) ==
    /\ child[w].status = "running"
    /\ child[w].processed = Len(chunks[w])
    /\ child' = [child EXCEPT ![w].status = "exited", ![w].code = 0]
    /\ \E delivered \in BOOLEAN :
          promise' = [promise EXCEPT ![w] =
                         IF delivered THEN OnExit(OnResult(@, child[w].results), 0)
                                      ELSE OnExit(@, 0)]
    /\ UNCHANGED <<runFixed, xmlFiles, adjacency, chunks, mainPc, written,
                   allReferences, uniqueRefs, backlinks, reachability>>

\* the worker process dies (uncaught error, signal) before its result
WorkerCrash(w) ==
    /\ child[w].status = "running"
    /\ child' = [child EXCEPT ![w].status = "exited", ![w].code = 1]
    /\ promise' = [promise EXCEPT ![w] = OnExit(@, 1)]
    /\ UNCHANGED <<runFixed, xmlFiles, adjacency, chunks, mainPc, written,
                   allReferences, uniqueRefs, backlinks, reachability>>

\* child.on("error", reject): the process could not be spawned or sent to
WorkerError(w) ==
    /\ child[w].status = "running"
    /\ child[w].processed = 0
    /\ child' = [child EXCEPT ![w].status = "errored"]
    /\ promise' = [promise EXCEPT ![w] =
                      IF @.state = "pending" THEN [@ EXCEPT !.state = "rejected"] ELSE @]
    /\ UNCHANGED <<runFixed, xmlFiles, adjacency, chunks, mainPc, written,
                   allReferences, uniqueRefs, backlinks, reachability>>

\* mutant: the join resolves with the first fulfilled promise
PromiseAny(ps) == \E w \in 1..Len(ps) : ps[w].state = "fulfilled"

\* Promise.all resolves once every promise is fulfilled
PromiseAll(ps) == \A w \in 1..Len(ps) : ps[w].state = "fulfilled"

\* the values Promise.all resolves with, in chunk order
PromiseValues == [w \in 1..Len(promise) |-> promise[w].result]

\* await Promise.all(promises) resolves: main runs to its end, merging the
\* results and writing the phase's files
JoinFulfilled ==
    /\ mainPc = "awaiting"
    /\ PromiseAll(promise)
    /\ mainPc' = "done"
    /\ \/ /\ runKind = "extraction"
          /\ allReferences' = Flatten(PromiseValues)
          /\ uniqueRefs' = dedupeReferences(allReferences')
          /\ backlinks' = buildBacklinks(uniqueRefs', lawIndex)
          /\ written' = written \o <<"references.json", "backlinks.json">>
          /\ UNCHANGED reachability
       \/ /\ runKind = "reachability"
          /\ reachability' = Flatten(PromiseValues)
          /\ written' = written \o <<"reachability.json", "important_paths.json">>
          /\ UNCHANGED <<allReferences, uniqueRefs, backlinks>>
    /\ UNCHANGED <<runFixed, xmlFiles, adjacency, chunks, child, promise>>

\* await Promise.all(promises) rejects with the first rejection: main throws
\* and main().catch(console.error) ends the run
JoinRejected ==
    /\ mainPc = "awaiting"
    /\ \E w \in 1..Len(promise) : promise[w].state = "rejected"
    /\ mainPc' = "failed"
    /\ UNCHANGED <<runFixed, xmlFiles, adjacency, chunks, child, promise, written,
                   allReferences, uniqueRefs, backlinks, reachability>>

RunNext ==
    \/ StartRun
    \/ \E w \in 1..Len(child) : WorkerStep(w)
    \/ \E w \in 1..Len(child) : WorkerFinish(w)
    \/ \E w \in 1..Len(child) : WorkerCrash(w)
    \/ \E w \in 1..Len(child) : WorkerError(w)
    \/ JoinFulfilled
    \/ JoinRejected

SpecRun == RunInit /\ [][RunNext]_vars

(***************************************************************************)
(* The coordinator's abbreviation table and what the worker makes of it.   *)
(***************************************************************************)
\* the entries of the fallback table that name a title of the registries
\* used here: 民 -> 民法, 民法 -> 民法, 民施 -> 民法施行法, 会社 -> 会社法,
\* 会社法 -> 会社法
Fallback ==
    << [key |-> Min1, full_name |-> Minpou],
       [key |-> Minpou, full_name |-> Minpou],
       [key |-> Minshi, full_name |-> Minpou \o Shikouhou],
       [key |-> Kaisha, full_name |-> Kaishahou],
       [key |-> Kaishahou, full_name |-> Kaishahou] >>

\* laws.find(l => l.id === id): the first law with that id
LawsFind(laws, id) ==
    IF \E i \in 1..Len(laws) : laws[i].id = id
    THEN laws[CHOOSE i \in 1..Len(laws) :
                 /\ laws[i].id = id
                 /\ \A j \in 1..(i - 1) : laws[j].id # id]
    ELSE NoLaw

\* result[abbrev] = law: a new key goes last, a known key keeps its place
ObjectSet(result, key, value) ==
    IF \E i \in 1..Len(result) : result[i].key = key
    THEN [i \in 1..Len(result) |->
             IF result[i].key = key THEN [key |-> key, value |-> value] ELSE result[i]]
    ELSE Append(result, [key |-> key, value |-> value])

ObjectHas(result, key) == \E i \in 1..Len(result) : result[i].key = key

\* the loop over abbreviation_map: law_id first, full_name otherwise
RECURSIVE LoadDynamic(_, _, _)
LoadDynamic(laws, abbrMap, result) ==
    IF abbrMap = <<>> THEN result
    ELSE LoadDynamic(laws, Tail(abbrMap),
            IF Head(abbrMap).law_id # Null
            THEN IF LawsFind(laws, Head(abbrMap).law_id) # NoLaw
                 THEN ObjectSet(result, Head(abbrMap).key,
                                LawsFind(laws, Head(abbrMap).law_id))
                 ELSE result
            ELSE IF Head(abbrMap).full_name # Null
                    /\ TitleToLawGet(laws, Head(abbrMap).full_name) # NoLaw
                 THEN ObjectSet(result, Head(abbrMap).key,
                                TitleToLawGet(laws, Head(abbrMap).full_name))
                 ELSE result)

\* the loop over the fallback table: only abbreviations not yet set
RECURSIVE LoadFallback(_, _, _)
LoadFallback(laws, fallback, result) ==
    IF fallback = <<>> THEN result
    ELSE LoadFallback(laws, Tail(fallback),
            IF ~ObjectHas(result, Head(fallback).key)
               /\ TitleToLawGet(laws, Head(fallback).full_name) # NoLaw
            THEN ObjectSet(result, Head(fallback).key,
                           TitleToLawGet(laws, Head(fallback).full_name))
            ELSE result)

\* loadAbbreviations: abbreviation -> registry law record
loadAbbreviations(laws, abbrMap) ==
    LoadFallback(laws, Fallback, LoadDynamic(laws, abbrMap, <<>>))

\* value.law_id: undefined on an object without that property
LawIdProperty(value) ==
    IF "law_id" \in DOMAIN value THEN value.law_id ELSE Null

\* Object.entries(abbreviations) as the worker's loop reads them
EntriesRead(table) ==
    [i \in 1..Len(table) |->
        [key |-> table[i].key, law_id |-> LawIdProperty(table[i].value)]]

\* abbreviations.json: abbreviation_map
AbbrFiles ==
    { <<>>,
      << [key |-> Minshi, law_id |-> IdC, full_name |-> Minpou \o Shikouhou] >>,
      << [key |-> Kaisha, law_id |-> Null, full_name |-> Kaishahou],
         [key |-> Min1, law_id |-> IdB, full_name |-> Null] >> }

\* an abbreviation on its own, between commas, or next to a title
PayloadWords == { <<>>, Minshi, Kaisha, Touten \o Kaisha \o Touten, Minpou, Kaishahou }

PayloadInit ==
    /\ lawIndex \in { <<LawA, LawB>>, <<LawA, LawB, LawC>> }
    /\ abbrFile \in AbbrFiles
    /\ abbrTable = <<>>
    /\ abbreviations = <<>>
    /\ \E i \in 1..Len(lawIndex) : fromLaw = LawIdMapGet(lawIndex, lawIndex[i].id)
    /\ xmlContent \in { a \o b : a \in PayloadWords, b \in PayloadWords }
    /\ abbrevMap = <<>>
    /\ knownLawNames = <<>>
    /\ references = <<>>
    /\ seen = {}
    /\ pc = "main"
    /\ DedupeIdle /\ GraphIdle
    /\ BacklinkIdle /\ SelectIdle /\ PathIdle /\ ChunkIdle /\ RunIdle /\ BfsIdle

\* main: the table is built and sent to the worker with the payload
LoadAbbreviations ==
    /\ pc = "main"
    /\ abbrTable' = loadAbbreviations(lawIndex, abbrFile)
    /\ abbreviations' = EntriesRead(abbrTable')
    /\ pc' = "message"
    /\ UNCHANGED <<lawIndex, fromLaw, xmlContent, abbrevMap, knownLawNames, references,
                   seen, abbrFile>>
    /\ UNCHANGED <<dedupeVars, graphVars, backlinkVars, selectVars, pathVars, chunkVars,
                   runVars, bfsVars>>

PayloadNext == LoadAbbreviations \/ BuildMaps \/ RunPhase1 \/ RunPhase2 \/ RunPhase3

SpecPayload == PayloadInit /\ [][PayloadNext]_vars

(***************************************************************************)
(* buildAdjacencyList on reference lists with unresolved targets.          *)
(***************************************************************************)
\* references as the graph build loads them: the target may be null
NullableEdgePool ==
    { [from_law_id |-> f, to_law_id |-> t] : f \in {IdA, IdB}, t \in {IdA, IdB, Null} }

EdgesInit ==
    /\ graphRefs \in SeqsUpTo(NullableEdgePool, MaxEdges)
    /\ adjacency = <<>>
    /\ startId = Null
    /\ maxHops = 0
    /\ reachableFrom = <<>>
    /\ reachableTo = <<>>
    /\ higherHops = 0
    /\ reachableFromHigher = <<>>
    /\ graphPc = "loaded"
    /\ ExtractIdle
    /\ DedupeIdle
    /\ LaterIdle

EdgesNext == BuildGraph

SpecEdges == EdgesInit /\ [][EdgesNext]_vars

(***************************************************************************)
(* The sequential extractor: extractReferencesFromXml.                     *)
(***************************************************************************)
\* the characters taken into the context before and after a match
ContextWindow == 20

\* numToLaw.get(lawNum): Map.set keeps the last law with that number
NumToLawGet(laws, lawNum) ==
    IF \E i \in 1..Len(laws) : laws[i].lawNum = lawNum
    THEN laws[CHOOSE i \in 1..Len(laws) :
                 /\ laws[i].lawNum = lawNum
                 /\ \A j \in (i + 1)..Len(laws) : laws[j].lawNum # lawNum]
    ELSE NoLaw

\* the manual abbreviations that name a title of the registries used here:
\* 民法 -> 民法 (the generated ones need a title ending in 法 and in
\* に関する法律 at once)
CommonAbbreviations(laws) ==
    IF TitleToLawGet(laws, Minpou) # NoLaw
    THEN << [name |-> Minpou, law |-> TitleToLawGet(laws, Minpou)] >>
    ELSE <<>>

\* String.prototype.trim
RECURSIVE TrimStart(_)
TrimStart(s) == IF s # <<>> /\ IsSpace(Head(s)) THEN TrimStart(Tail(s)) ELSE s

RECURSIVE TrimEnd(_)
TrimEnd(s) ==
    IF s # <<>> /\ IsSpace(s[Len(s)]) THEN TrimEnd(SubSeq(s, 1, Len(s) - 1)) ELSE s

\* the text around the match, line breaks replaced by spaces, trimmed
ContextOf(text, m) ==
    TrimEnd(TrimStart(
        [k \in 1..Len(Substring(text,
                                IF m.index > ContextWindow THEN m.index - ContextWindow
                                                           ELSE 0,
                                Min(Len(text), m.end + ContextWindow))) |->
            IF Substring(text,
                         IF m.index > ContextWindow THEN m.index - ContextWindow ELSE 0,
                         Min(Len(text), m.end + ContextWindow))[k] \in {10, 13}
            THEN 32
            ELSE Substring(text,
                           IF m.index > ContextWindow THEN m.index - ContextWindow ELSE 0,
                           Min(Len(text), m.end + ContextWindow))[k]]))

\* titleToLaw.get(lawName) || abbreviations.get(lawName) || numToLaw.get(lawNum)
FullRefTarget(laws, from, m) ==
    IF ResolveName(laws, CommonAbbreviations(laws), m.g1) # NoLaw
    THEN ResolveName(laws, CommonAbbreviations(laws), m.g1)
    ELSE NumToLawGet(laws, m.g2)

\* the loop over the matches of pattern 1: every match is pushed
RECURSIVE Pattern1(_, _, _, _)
Pattern1(text, from, laws, matches) ==
    IF matches = <<>> THEN <<>>
    ELSE << [from_law_id |-> from.id, from_law_title |-> from.title,
             to_law_id |-> FullRefTarget(laws, from, Head(matches)).id,
             to_law_title |-> Head(matches).g1,
             to_law_num |-> Head(matches).g2,
             article |-> Null,
             context |-> ContextOf(text, Head(matches))] >>
         \o Pattern1(text, from, laws, Tail(matches))

\* the loop over the matches of pattern 2: the document's own title is
\* skipped, an unresolved name pushes nothing
RECURSIVE Pattern2(_, _, _, _)
Pattern2(text, from, laws, matches) ==
    IF matches = <<>> THEN <<>>
    ELSE (IF /\ Head(matches).g1 # from.title
             /\ ResolveName(laws, CommonAbbreviations(laws), Head(matches).g1) # NoLaw
          THEN << [from_law_id |-> from.id, from_law_title |-> from.title,
                   to_law_id |-> ResolveName(laws, CommonAbbreviations(laws),
                                             Head(matches).g1).id,
                   to_law_title |-> Head(matches).g1,
                   to_law_num |-> ResolveName(laws, CommonAbbreviations(laws),
                                              Head(matches).g1).lawNum,
                   article |-> ChDai \o Head(matches).g2 \o ChJou,
                   context |-> ContextOf(text, Head(matches))] >>
          ELSE <<>>)
         \o Pattern2(text, from, laws, Tail(matches))

SequentialInit ==
    /\ lawIndex \in { <<LawA, LawB>>, <<LawA, LawB, LawC>> }
    /\ abbreviations = <<>>
    /\ \E i \in 1..Len(lawIndex) : fromLaw = LawsFind(lawIndex, lawIndex[i].id)
    /\ xmlContent \in Texts
    /\ abbrevMap = <<>>
    /\ knownLawNames = <<>>
    /\ references = <<>>
    /\ seen = {}
    /\ pc = "pattern1"
    /\ DedupeIdle
    /\ GraphIdle
    /\ LaterIdle

\* extractReferencesFromXml up to the end of the loop over pattern 1
RunPattern1 ==
    /\ pc = "pattern1"
    /\ references' = Pattern1(xmlContent, fromLaw, lawIndex,
                              ExecAll("fullRefPattern", xmlContent, 0))
    /\ pc' = "pattern2"
    /\ UNCHANGED <<lawIndex, abbreviations, fromLaw, xmlContent, abbrevMap, knownLawNames,
                   seen>>
    /\ UNCHANGED <<dedupeVars, graphVars, laterVars>>

\* the loop over pattern 2, then return references
RunPattern2 ==
    /\ pc = "pattern2"
    /\ references' = references
                       \o Pattern2(xmlContent, fromLaw, lawIndex,
                                   ExecAll("shortRefPattern", xmlContent, 0))
    /\ pc' = "returned"
    /\ UNCHANGED <<lawIndex, abbreviations, fromLaw, xmlContent, abbrevMap, knownLawNames,
                   seen>>
    /\ UNCHANGED <<dedupeVars, graphVars, laterVars>>

SequentialNext == RunPattern1 \/ RunPattern2

SpecSequential == SequentialInit /\ [][SequentialNext]_vars

(***************************************************************************)
(* The path finder on the forward adjacency of a reference list.           *)
(***************************************************************************)
PathInit ==
    /\ graphRefs \in SeqsUpTo(EdgePool, MaxEdges)
    /\ adjacency = <<>>
    /\ graphPc = "loaded"
    /\ startId = Null /\ maxHops = 0 /\ reachableFrom = <<>> /\ reachableTo = <<>>
    /\ higherHops = 0 /\ reachableFromHigher = <<>>
    /\ ExtractIdle
    /\ DedupeIdle
    /\ LaterIdle

\* findShortestPath(fromId, toId, outgoing) for one pair of laws
FindPath ==
    /\ graphPc = "built"
    /\ pathFrom' \in NodeIds
    /\ pathTo' \in NodeIds
    /\ foundPath' = findShortestPath(pathFrom', pathTo', adjacency.outgoing)
    /\ graphPc' = "searched"
    /\ UNCHANGED <<graphRefs, adjacency, startId, maxHops, reachableFrom, reachableTo,
                   higherHops, reachableFromHigher>>
    /\ UNCHANGED <<extractVars, dedupeVars, backlinkVars, selectVars, chunkVars, runVars,
                   lastVars>>

PathNext == BuildGraph \/ FindPath

SpecPath == PathInit /\ [][PathNext]_vars

(***************************************************************************)
(* The deduplicated list and its backlinks.                                *)
(***************************************************************************)
Registries == { <<LawA, LawB>>, <<LawA, LawB, LawC>> }

\* records as the extraction emits them from the documents of laws: known
\* targets other than the document's own law, and unknown laws
BacklinkPool(laws) ==
    { Ref(laws[f], t.id, t.title, t.lawNum, a, Null, Null,
          IF a = Null THEN "law_name" ELSE "article_ref") :
        f \in 1..Len(laws), t \in {LawA, LawB}, a \in {Null, Dai1Jou} }
    \cup
    { Ref(laws[f], Null, Tokkyohou, n, Null, Null, Null, "unknown_law") :
        f \in 1..Len(laws), n \in {Meiji29Hou89, Heisei17Hou86} }

BacklinksInit ==
    /\ lawIndex \in Registries
    /\ allReferences \in SeqsUpTo({r \in BacklinkPool(lawIndex) :
                                      r.from_law_id # r.to_law_id}, MaxRefs)
    /\ uniqueRefs = <<>>
    /\ rerunRefs = <<>>
    /\ dedupePc = "merged"
    /\ abbreviations = <<>> /\ fromLaw = NoLaw /\ xmlContent = <<>>
    /\ abbrevMap = <<>> /\ knownLawNames = <<>> /\ references = <<>>
    /\ seen = {} /\ pc = "idle"
    /\ GraphIdle
    /\ LaterIdle

\* const backlinks = buildBacklinks(uniqueRefs, laws)
BuildBacklinks ==
    /\ dedupePc = "deduped"
    /\ backlinks' = buildBacklinks(uniqueRefs, lawIndex)
    /\ dedupePc' = "backlinked"
    /\ UNCHANGED <<allReferences, uniqueRefs, rerunRefs>>
    /\ UNCHANGED <<extractVars, graphVars, selectVars, pathVars, chunkVars, runVars,
                   lastVars>>

BacklinksNext == Dedupe \/ BuildBacklinks

SpecBacklinks == BacklinksInit /\ [][BacklinksNext]_vars

(***************************************************************************)
(* The selection of the important laws among the active nodes.             *)
(***************************************************************************)
\* node lists: the i-th law of the registry with its degrees
NodeLists ==
    UNION { [1..n -> [in_degree : {0, 3, 8, 10}, out_degree : {0, 1}]] : n \in 0..MaxNodes }

SelectInit ==
    /\ \E degrees \in NodeLists :
          activeNodes = FilterActive([i \in 1..Len(degrees) |->
                                        [id |-> i, in_degree |-> degrees[i].in_degree,
                                         out_degree |-> degrees[i].out_degree]])
    /\ topCount = 0
    /\ importantLaws = <<>>
    /\ selectPc = "filtered"
    /\ ExtractIdle /\ DedupeIdle /\ GraphIdle
    /\ BacklinkIdle /\ PathIdle /\ ChunkIdle /\ RunIdle /\ LastIdle

\* const importantLaws = activeNodes.sort(...).slice(0, K)
SelectImportantLaws ==
    /\ selectPc = "filtered"
    /\ topCount' \in 1..MaxTopCount \cup {ImportantCount}
    /\ importantLaws' = SelectImportant(activeNodes, topCount')
    /\ selectPc' = "selected"
    /\ UNCHANGED activeNodes
    /\ UNCHANGED <<extractVars, dedupeVars, graphVars, backlinkVars, pathVars,
                   chunkVars, runVars, lastVars>>

SelectNext == SelectImportantLaws

SpecSelect == SelectInit /\ [][SelectNext]_vars

(***************************************************************************)
(* The chunking alone, on work lists of every length.                      *)
(***************************************************************************)
ChunkInit ==
    /\ \E n \in 0..MaxItems : itemList = [i \in 1..n |-> i]
    /\ workerCount \in 1..MaxParallel
    /\ chunkList = <<>>
    /\ chunkPc = "listed"
    /\ ExtractIdle /\ DedupeIdle /\ GraphIdle
    /\ BacklinkIdle /\ SelectIdle /\ PathIdle /\ RunIdle /\ LastIdle

\* the chunk loop of main
MakeChunks ==
    /\ chunkPc = "listed"
    /\ chunkList' = MakeChunksOf(itemList, workerCount)
    /\ chunkPc' = "chunked"
    /\ UNCHANGED <<itemList, workerCount>>
    /\ UNCHANGED <<extractVars, dedupeVars, graphVars, backlinkVars, selectVars,
                   pathVars, runVars, lastVars>>

ChunkNext == MakeChunks

SpecChunk == ChunkInit /\ [][ChunkNext]_vars

(***************************************************************************)
(* Properties of the extraction (SpecExtract).                             *)
(***************************************************************************)
RefIndices == 1..Len(references)

\* the candidate qualifies in phase 1: another law's name of the minimum
\* length whose first occurrence is not preceded by an ideograph or a kana
Qualifies(cand) ==
    LET pos == IndexOf(xmlContent, cand.name)
    IN  /\ cand.law.id # fromLaw.id
        /\ Len(cand.name) >= MinNameLength
        /\ pos # -1
        /\ ~(pos > 0 /\ IsCjkKana(At(xmlContent, pos - 1)))

QualifyingFor(id) ==
    {k \in 1..Len(knownLawNames) :
        knownLawNames[k].law.id = id /\ Qualifies(knownLawNames[k])}

\* the matches of a pattern whose name resolves to the law id
MatchesFor(matches, id) ==
    {m \in 1..Len(matches) : ResolveName(lawIndex, abbrevMap, matches[m].g1).id = id}

Least(S) == CHOOSE x \in S : \A y \in S : x <= y

\* C1: every Reference with to_law_id set, whichever phase emitted it, cites
\* another law than the document's own, and a law of the registry.
NoSelfCitationAndKnownTarget ==
    \A i \in RefIndices :
        references[i].to_law_id # Null =>
            /\ references[i].from_law_id = fromLaw.id
            /\ references[i].from_law_id # references[i].to_law_id
            /\ \E k \in 1..Len(lawIndex) : lawIndex[k].id = references[i].to_law_id

\* a document whose only citation comes from the amendment phase
AmendmentCited ==
    /\ pc = "returned"
    /\ \E i \in RefIndices :
          references[i].ref_type = "amendment_ref" /\ references[i].to_law_id # Null

\* the Reference r to a known law is the one of the first qualifying
\* candidate, else of the first number match, else of the first amendment
\* match that resolves to the law
FirstOccurrenceWins(r) ==
    LET id == r.to_law_id
        q1 == QualifyingFor(id)
        m2 == ExecAll("unknownLawWithNumPattern", xmlContent, 0)
        q2 == MatchesFor(m2, id)
        m3 == ExecAll("amendmentPattern", xmlContent, 0)
        q3 == MatchesFor(m3, id)
    IN  IF q1 # {}
        THEN LET c == knownLawNames[Least(q1)]
             IN  r = KnownNameRef(xmlContent, fromLaw, c.name, c.law,
                                  IndexOf(xmlContent, c.name))
        ELSE IF q2 # {}
        THEN r.to_law_title = m2[Least(q2)].g1 /\ r.ref_type = "law_num_ref"
        ELSE q3 # {} /\ r.to_law_title = m3[Least(q3)].g1 /\ r.ref_type = "amendment_ref"

\* C2: one document's list holds at most one Reference per non-null
\* to_law_id, over all phases, and it is the one of the first qualifying
\* candidate or match in processing order.
OneReferencePerTarget ==
    /\ \A i, j \in RefIndices :
          (i < j /\ references[i].to_law_id # Null)
              => references[i].to_law_id # references[j].to_law_id
    /\ pc = "returned" =>
          \A i \in RefIndices :
              references[i].to_law_id # Null => FirstOccurrenceWins(references[i])

\* a law recorded by phase 1 is matched again by the number pattern
RecordedLawMatchedAgain ==
    /\ pc = "returned"
    /\ \E i \in RefIndices :
          /\ references[i].to_law_id # Null
          /\ QualifyingFor(references[i].to_law_id) # {}
          /\ MatchesFor(ExecAll("unknownLawWithNumPattern", xmlContent, 0),
                        references[i].to_law_id) # {}

\* registry {A: 民法, B: 会社法}, document B, text 民法（明治二十九年法律第八十九号）第三条
ScenarioState ==
    /\ lawIndex = <<LawA, LawB>>
    /\ fromLaw = LawB
    /\ xmlContent = ScenarioText

GuardedOccurrenceNotCited ==
    /\ pc = "phase2" =>
          \A i \in RefIndices :
              LET pos == IndexOf(xmlContent, references[i].to_law_title)
              IN  ~(pos > 0 /\ IsCjkKana(At(xmlContent, pos - 1)))
    /\ (xmlContent = GuardText /\ fromLaw # LawA) =>
          \A i \in RefIndices : references[i].to_law_id # IdA

GuardTextExtracted ==
    /\ pc = "returned"
    /\ xmlContent = GuardText
    /\ fromLaw = LawB
    /\ \E k \in 1..Len(knownLawNames) : knownLawNames[k].name = Minpou

\* C5: the candidate list holds every title and abbreviation, longest name
\* first, and the Reference phase 1 emits for a law carries a name at least
\* as long as every qualifying name of that law.
LongestNameFirst ==
    /\ pc \in {"phase1", "phase2", "phase3", "returned"} =>
          /\ \A i, j \in 1..Len(knownLawNames) :
                i < j => Len(knownLawNames[i].name) >= Len(knownLawNames[j].name)
          /\ Len(knownLawNames) = Len(lawIndex) + Len(abbrevMap)
          /\ \A k \in 1..Len(lawIndex) :
                \E i \in 1..Len(knownLawNames) :
                    knownLawNames[i] = [name |-> lawIndex[k].title, law |-> lawIndex[k]]
          /\ \A k \in 1..Len(abbrevMap) :
                \E i \in 1..Len(knownLawNames) : knownLawNames[i] = abbrevMap[k]
    /\ pc = "phase2" =>
          \A i \in RefIndices :
              \A k \in QualifyingFor(references[i].to_law_id) :
                  Len(knownLawNames[k].name) <= Len(references[i].to_law_title)

\* a law is cited under its longest name although a shorter name of it
\* qualifies as well
ShorterNameAlsoQualifies ==
    /\ pc = "phase2"
    /\ \E i \in RefIndices :
          \E k \in QualifyingFor(references[i].to_law_id) :
              Len(knownLawNames[k].name) < Len(references[i].to_law_title)

\* the first match of the number pattern that captured the name
FirstNumMatchOf(name) ==
    LET m2 == ExecAll("unknownLawWithNumPattern", xmlContent, 0)
    IN  IF \E m \in 1..Len(m2) : m2[m].g1 = name
        THEN m2[Least({m \in 1..Len(m2) : m2[m].g1 = name})]
        ELSE [g1 |-> Null, g2 |-> Null]

\* C25: a Reference without to_law_id has ref_type unknown_law, a title that
\* neither the titles nor the abbreviations resolve, and the promulgation
\* number captured with the first match of that name; no two such References
\* of a document carry the same name, and unknown_law is never the type of a
\* Reference whose name resolves
UnknownLawReferences ==
    /\ \A i \in RefIndices :
          references[i].to_law_id = Null =>
              /\ references[i].ref_type = "unknown_law"
              /\ ResolveName(lawIndex, abbrevMap, references[i].to_law_title) = NoLaw
              /\ references[i].to_law_num # Null
              /\ references[i].to_law_num = FirstNumMatchOf(references[i].to_law_title).g2
    /\ \A i, j \in RefIndices :
          (i < j /\ references[i].to_law_id = Null /\ references[j].to_law_id = Null)
              => references[i].to_law_title # references[j].to_law_title
    /\ \A i \in RefIndices :
          references[i].ref_type = "unknown_law" =>
              /\ references[i].to_law_id = Null
              /\ ResolveName(lawIndex, abbrevMap, references[i].to_law_title) = NoLaw

\* the unknown name 特許法 is matched twice with two numbers and recorded once
UnknownNameMatchedTwice ==
    /\ pc = "returned"
    /\ xmlContent = RepeatedUnknownText
    /\ Len(ExecAll("unknownLawWithNumPattern", xmlContent, 0)) = 2
    /\ Len(references) = 1
    /\ references[1].to_law_id = Null
    /\ references[1].to_law_num = Meiji29Hou89

\* a candidate name of the law is found, and rejected by the partial-match
\* guard
RejectedFor(id) ==
    {k \in 1..Len(knownLawNames) :
        /\ knownLawNames[k].law.id = id
        /\ Len(knownLawNames[k].name) >= MinNameLength
        /\ IndexOf(xmlContent, knownLawNames[k].name) > 0
        /\ IsCjkKana(At(xmlContent, IndexOf(xmlContent, knownLawNames[k].name) - 1))}

ReferencesTo(id) == {i \in RefIndices : references[i].to_law_id = id}

\* C26: after phase 1 the seen set holds the recorded targets only, so a law
\* with a candidate rejected by the partial-match guard that has another
\* candidate matching standalone, or a number or amendment match resolving
\* to it, has exactly one Reference in the document's list
RejectedCandidateLeavesLawUnseen ==
    /\ pc = "phase2" => seen = {references[i].to_law_id : i \in RefIndices}
    /\ pc = "returned" =>
          \A k \in 1..Len(lawIndex) :
              LET id == lawIndex[k].id
              IN  (/\ id # fromLaw.id
                   /\ RejectedFor(id) # {}
                   /\ \/ QualifyingFor(id) # {}
                      \/ MatchesFor(ExecAll("unknownLawWithNumPattern", xmlContent, 0),
                                    id) # {}
                      \/ MatchesFor(ExecAll("amendmentPattern", xmlContent, 0), id) # {})
                      => Cardinality(ReferencesTo(id)) = 1

\* the title of a law is rejected by the guard and a shorter name of the
\* same law, later in the candidate list, is cited
ShorterNameCitedAfterRejection ==
    /\ pc = "returned"
    /\ \E i \in RefIndices :
          \E k \in RejectedFor(references[i].to_law_id) :
              /\ Len(knownLawNames[k].name) > Len(references[i].to_law_title)
              /\ references[i].ref_type = "law_name"
              /\ QualifyingFor(references[i].to_law_id) # {}

\* every occurrence of the name n in the text lies within an occurrence of
\* the longer name m
OccursOnlyInside(n, m) ==
    \A p \in 0..(Len(xmlContent) - Len(n)) :
        StartsWithAt(xmlContent, n, p) =>
            \E q \in 0..p :
                /\ StartsWithAt(xmlContent, m, q)
                /\ p + Len(n) <= q + Len(m)

\* C29: phase 1 records no law under a name that occurs in the document only
\* as a part of a longer name recorded by phase 1 for another law
NoCitationInsideLongerName ==
    pc = "phase2" =>
        \A i, j \in RefIndices :
            (/\ references[i].to_law_id # references[j].to_law_id
             /\ Len(references[i].to_law_title) < Len(references[j].to_law_title))
                => ~OccursOnlyInside(references[i].to_law_title,
                                     references[j].to_law_title)

(***************************************************************************)
(* Properties of the deduplication (SpecDedupe).                           *)
(***************************************************************************)
\* (from_law_id, to_law_id if set else to_law_title, article or empty)
KeyOf(ref) ==
    <<ref.from_law_id,
      IF ref.to_law_id # Null THEN ref.to_law_id ELSE ref.to_law_title,
      ref.article>>

\* the positions at which a key occurs for the first time
FirstPositions(refs) ==
    {i \in 1..Len(refs) : \A j \in 1..(i - 1) : KeyOf(refs[j]) # KeyOf(refs[i])}

\* q is a subsequence of refs
RECURSIVE IsSubsequence(_, _)
IsSubsequence(q, refs) ==
    IF q = <<>> THEN TRUE
    ELSE IF refs = <<>> THEN FALSE
    ELSE IF Head(q) = Head(refs) THEN IsSubsequence(Tail(q), Tail(refs))
    ELSE IsSubsequence(q, Tail(refs))

\* C6: the output is a subsequence of the input without two records of one
\* key, with every key of the input, and keeps the first record of each key.
DedupeKeepsFirstOfEachKey ==
    dedupePc \in {"deduped", "rerun"} =>
        /\ IsSubsequence(uniqueRefs, allReferences)
        /\ \A i, j \in 1..Len(uniqueRefs) :
              i < j => KeyOf(uniqueRefs[i]) # KeyOf(uniqueRefs[j])
        /\ \A i \in 1..Len(allReferences) :
              \E j \in 1..Len(uniqueRefs) :
                  KeyOf(uniqueRefs[j]) = KeyOf(allReferences[i])
        /\ \A j \in 1..Len(uniqueRefs) :
              \E i \in FirstPositions(allReferences) : allReferences[i] = uniqueRefs[j]

\* a record is dropped that differs from the kept record of its key
DifferentDuplicateDropped ==
    /\ dedupePc = "deduped"
    /\ \E i, j \in 1..Len(allReferences) :
          /\ i < j
          /\ KeyOf(allReferences[i]) = KeyOf(allReferences[j])
          /\ allReferences[i] # allReferences[j]
    /\ Len(uniqueRefs) >= 2

\* C7: deduplicating the deduplicated list changes nothing.
DedupeIdempotent == dedupePc = "rerun" => rerunRefs = uniqueRefs

DedupedTwice ==
    /\ dedupePc = "rerun"
    /\ Len(uniqueRefs) < Len(allReferences)
    /\ Len(uniqueRefs) >= 2

(***************************************************************************)
(* Properties of the reachability (SpecGraph).                             *)
(***************************************************************************)
\* a reference of the list cites b from a
Cites(a, b) ==
    \E i \in 1..Len(graphRefs) :
        graphRefs[i].from_law_id = a /\ graphRefs[i].to_law_id = b

\* the nodes at the end of a directed walk of exactly k citations from s
\* (forward) or into s (not forward)
RECURSIVE WalkEnds(_, _, _)
WalkEnds(s, k, forward) ==
    IF k = 0 THEN {s}
    ELSE LET prev == WalkEnds(s, k - 1, forward)
         IN  {n \in NodeIds : \E m \in prev : IF forward THEN Cites(m, n) ELSE Cites(n, m)}

\* the length of the shortest directed path from s to v (forward) or from v
\* to s (not forward), 0 if there is none
ShortestPath(s, v, forward) ==
    LET ks == {k \in 1..Cardinality(NodeIds) : v \in WalkEnds(s, k, forward)}
    IN  IF ks = {} THEN 0 ELSE Least(ks)

UnderCap(d, cap) == d >= 1 /\ (cap = NoCap \/ d <= cap)

\* dist records exactly the other nodes whose shortest path is within cap
RecordsShortestPaths(dist, cap, forward) ==
    /\ DOMAIN dist = {v \in NodeIds \ {startId} :
                         UnderCap(ShortestPath(startId, v, forward), cap)}
    /\ \A v \in DOMAIN dist :
          /\ dist[v] = ShortestPath(startId, v, forward)
          /\ dist[v] >= 1
          /\ cap # NoCap => dist[v] <= cap
    /\ startId \notin DOMAIN dist

\* C8: the forward search records v at hop d exactly when v is not the
\* source and its shortest path from the source has length d, 1 <= d <= H;
\* the reverse search does so for the shortest paths into the target.
BfsRecordsShortestPaths ==
    graphPc \in {"computed", "compared"} =>
        /\ RecordsShortestPaths(reachableFrom, maxHops, TRUE)
        /\ RecordsShortestPaths(reachableTo, maxHops, FALSE)

\* the cap cuts a node off that a longer search would reach
CapCutsReachableNode ==
    /\ graphPc = "computed"
    /\ maxHops = 1
    /\ reachableFrom # <<>>
    /\ reachableTo # <<>>
    /\ \E v \in NodeIds \ {startId} : ShortestPath(startId, v, TRUE) = 2

\* C9 as stated: every direct successor C (other than the source) of a
\* recorded node B is recorded, at most one hop after B.
SuccessorsRecorded ==
    graphPc = "computed" =>
        \A b \in DOMAIN reachableFrom :
            \A c \in NodeIds \ {startId} :
                Cites(b, c) =>
                    /\ c \in DOMAIN reachableFrom
                    /\ reachableFrom[c] <= reachableFrom[b] + 1

\* C9 as amended: every direct successor C (other than the source) of a
\* node B that is recorded below the hop cap is recorded, at most one hop
\* after B.
SuccessorsBelowCapRecorded ==
    graphPc = "computed" =>
        \A b \in DOMAIN reachableFrom :
            (maxHops = NoCap \/ reachableFrom[b] < maxHops) =>
                \A c \in NodeIds \ {startId} :
                    Cites(b, c) =>
                        /\ c \in DOMAIN reachableFrom
                        /\ reachableFrom[c] <= reachableFrom[b] + 1

\* a successor is recorded exactly one hop after a node below the cap
SuccessorOneHopLater ==
    /\ graphPc = "computed"
    /\ maxHops # NoCap
    /\ \E b \in DOMAIN reachableFrom :
          /\ reachableFrom[b] < maxHops
          /\ \E c \in NodeIds \ {startId} :
                /\ Cites(b, c)
                /\ c \in DOMAIN reachableFrom
                /\ reachableFrom[c] = reachableFrom[b] + 1

\* C10: what the search records under cap H it records under a cap H' > H,
\* at the same hop count.
LowerCapIsRestriction ==
    graphPc = "compared" =>
        /\ higherHops > maxHops
        /\ DOMAIN reachableFrom \subseteq DOMAIN reachableFromHigher
        /\ \A v \in DOMAIN reachableFrom : reachableFrom[v] = reachableFromHigher[v]

\* the larger cap records a node more
HigherCapRecordsMore ==
    /\ graphPc = "compared"
    /\ reachableFrom # <<>>
    /\ DOMAIN reachableFrom # DOMAIN reachableFromHigher


(***************************************************************************)
(* Properties of the chunking (SpecChunk).                                 *)
(***************************************************************************)
\* C19: for every list length n >= 0 and worker count W >= 1 the chunking
\* yields at most W chunks, each a non-empty contiguous slice of the list,
\* pairwise disjoint, whose concatenation in chunk order is the whole list
ChunksPartitionTheList ==
    chunkPc = "chunked" =>
        /\ Len(chunkList) <= workerCount
        /\ \A c \in 1..Len(chunkList) :
              /\ Len(chunkList[c]) >= 1
              /\ \E a \in 0..Len(itemList) :
                    chunkList[c] = SubSeq(itemList, a + 1, a + Len(chunkList[c]))
        /\ \A c, d \in 1..Len(chunkList) :
              c # d => \A i \in 1..Len(chunkList[c]), j \in 1..Len(chunkList[d]) :
                          chunkList[c][i] # chunkList[d][j]
        /\ Flatten(chunkList) = itemList

\* a list that does not divide evenly: fewer chunks than workers, a short
\* last chunk
UnevenChunks ==
    /\ chunkPc = "chunked"
    /\ Len(chunkList) >= 2
    /\ Len(chunkList) < workerCount
    /\ Len(chunkList[Len(chunkList)]) < Len(chunkList[1])


(***************************************************************************)
(* Properties of the backlinks (SpecBacklinks).                            *)
(***************************************************************************)
RECURSIVE SumOfCounts(_)
SumOfCounts(entries) ==
    IF entries = <<>> THEN 0 ELSE Head(entries).count + SumOfCounts(Tail(entries))

EntriesOf(id) == {i \in 1..Len(backlinks) : backlinks[i].law_id = id}

\* C14: for every law L of the registry the counts of L's referenced_by sum
\* to the number of deduplicated references whose to_law_id is L, and no
\* referrer appears twice in the list
BacklinkCountsMatch ==
    dedupePc = "backlinked" =>
        \A l \in 1..Len(lawIndex) :
            \A e \in EntriesOf(lawIndex[l].id) :
                /\ SumOfCounts(backlinks[e].referenced_by)
                     = Cardinality({i \in 1..Len(uniqueRefs) :
                                       uniqueRefs[i].to_law_id = lawIndex[l].id})
                /\ \A i, j \in 1..Len(backlinks[e].referenced_by) :
                      i # j => backlinks[e].referenced_by[i].law_id
                                 # backlinks[e].referenced_by[j].law_id

\* one referrer cites the same law twice (two articles), another once
ReferrerCountedTwice ==
    /\ dedupePc = "backlinked"
    /\ \E e \in 1..Len(backlinks) :
          /\ Len(backlinks[e].referenced_by) = 2
          /\ backlinks[e].referenced_by[1].count = 2
          /\ backlinks[e].referenced_by[2].count = 1

\* C15: the map has exactly one entry per law id of the registry and none
\* for any other id; a law no record names as its target keeps an empty list
OneBacklinkEntryPerLaw ==
    dedupePc = "backlinked" =>
        /\ \A l \in 1..Len(lawIndex) : Cardinality(EntriesOf(lawIndex[l].id)) = 1
        /\ \A e \in 1..Len(backlinks) :
              /\ \E l \in 1..Len(lawIndex) : lawIndex[l].id = backlinks[e].law_id
              /\ (\A i \in 1..Len(uniqueRefs) :
                     uniqueRefs[i].to_law_id # backlinks[e].law_id)
                 => backlinks[e].referenced_by = <<>>

\* a law that only cites, next to a cited one and an unknown-law record
UnreferencedLawListed ==
    /\ dedupePc = "backlinked"
    /\ \E e \in 1..Len(backlinks) :
          /\ backlinks[e].law_id = IdC
          /\ backlinks[e].referenced_by = <<>>
    /\ \E e \in 1..Len(backlinks) : backlinks[e].referenced_by # <<>>
    /\ \E i \in 1..Len(uniqueRefs) :
          uniqueRefs[i].to_law_id = Null /\ uniqueRefs[i].from_law_id = IdC


(***************************************************************************)
(* Properties of the selection (SpecSelect).                               *)
(***************************************************************************)
\* position of a node of the selection in the active list
ActivePosition(node) == CHOOSE p \in 1..Len(activeNodes) : activeNodes[p].id = node.id

\* a ranks before b: higher in_degree, or equal and earlier in the list
RanksBefore(a, b) ==
    \/ a.in_degree > b.in_degree
    \/ a.in_degree = b.in_degree /\ ActivePosition(a) < ActivePosition(b)

\* C16: the selection is the K active nodes of highest in_degree (all of them
\* when there are fewer than K), in non-increasing in_degree order, ties in
\* the order of the original list
SelectionIsTopK ==
    selectPc = "selected" =>
        /\ Len(importantLaws) = Min(topCount, Len(activeNodes))
        /\ \A i \in 1..Len(importantLaws) :
              \E p \in 1..Len(activeNodes) : activeNodes[p] = importantLaws[i]
        /\ \A i \in 1..(Len(importantLaws) - 1) :
              RanksBefore(importantLaws[i], importantLaws[i + 1])
        /\ \A p \in 1..Len(activeNodes) :
              (\A i \in 1..Len(importantLaws) : importantLaws[i] # activeNodes[p])
              => \A i \in 1..Len(importantLaws) :
                    RanksBefore(importantLaws[i], activeNodes[p])

\* the scenario: in-degrees [10, 8, 8, 3] and K = 2 give the node with 10
\* and the first of the two nodes with 8
TieCutByTopCount ==
    /\ selectPc = "selected"
    /\ topCount = 2
    /\ [p \in 1..Len(activeNodes) |-> activeNodes[p].in_degree] = <<10, 8, 8, 3>>
    /\ importantLaws = <<activeNodes[1], activeNodes[2]>>


(***************************************************************************)
(* Properties of the path finder (SpecPath).                               *)
(***************************************************************************)
\* C17: the path finder returns null exactly when the target cannot be
\* reached; otherwise a sequence that starts with from, ends with to, whose
\* consecutive elements are edges, of minimal length; from = to gives [from]
PathIsShortest ==
    graphPc = "searched" =>
        /\ pathFrom = pathTo => foundPath = <<pathFrom>>
        /\ pathFrom # pathTo =>
              /\ foundPath = Null <=> ShortestPath(pathFrom, pathTo, TRUE) = 0
              /\ foundPath # Null =>
                    /\ foundPath[1] = pathFrom
                    /\ foundPath[Len(foundPath)] = pathTo
                    /\ \A i \in 1..(Len(foundPath) - 1) :
                          Cites(foundPath[i], foundPath[i + 1])
                    /\ Len(foundPath) - 1 = ShortestPath(pathFrom, pathTo, TRUE)

\* the scenario: with A -> B and B -> C alone, path(A, C) = [A, B, C]
TwoHopPathFound ==
    /\ graphPc = "searched"
    /\ graphRefs = << [from_law_id |-> IdA, to_law_id |-> IdB],
                      [from_law_id |-> IdB, to_law_id |-> IdC] >>
    /\ pathFrom = IdA
    /\ pathTo = IdC
    /\ foundPath = <<IdA, IdB, IdC>>

(***************************************************************************)
(* Properties of a parallel phase.                                         *)
(***************************************************************************)
\* what a worker's loop owes for a list of documents, document by document:
\* nothing for a file outside the registry or an unreadable one
RECURSIVE RefsOfDocs(_)
RefsOfDocs(docs) ==
    IF docs = <<>> THEN <<>>
    ELSE (IF Head(docs).readable /\ LawIdMapGet(lawIndex, Head(docs).id) # NoLaw
          THEN ExtractReferences(Head(docs).text, LawIdMapGet(lawIndex, Head(docs).id),
                                 BuildKnownLawNames(lawIndex, BuildAbbrevMap(lawIndex, abbreviations)),
                                 lawIndex, BuildAbbrevMap(lawIndex, abbreviations))
          ELSE <<>>)
         \o RefsOfDocs(Tail(docs))

Readable(docs) == SelectSeq(docs, LAMBDA d : d.readable)

Workers == 1..Len(child)

Abnormal(w) ==
    \/ child[w].status = "errored"
    \/ child[w].status = "exited" /\ child[w].code # 0

Occurrences(file) == Cardinality({i \in 1..Len(written) : written[i] = file})

\* C11: a worker that has exited without its result message having been
\* received has its promise rejected, whatever its exit code
ExitWithoutResultRejects ==
    \A w \in Workers :
        (child[w].status = "exited" /\ ~promise[w].received)
            => promise[w].state = "rejected"

\* C12: once a worker has exited with a non-zero code or raised the error
\* event, the phase does not complete and none of references.json,
\* backlinks.json, reachability.json is written
AbnormalExitAbortsThePhase ==
    (\E w \in Workers : Abnormal(w))
        => /\ mainPc # "done"
           /\ Occurrences("references.json") = 0
           /\ Occurrences("backlinks.json") = 0
           /\ Occurrences("reachability.json") = 0

\* one worker died after another one had delivered its result, and the
\* coordinator has given up
CrashBesideDeliveredResult ==
    /\ mainPc = "failed"
    /\ \E v, w \in Workers :
          /\ Abnormal(v)
          /\ promise[w].state = "fulfilled" /\ promise[w].received
          /\ promise[w].result # <<>>

\* C13: in an extraction worker the documents gone through so far have
\* contributed what the readable ones among them yield, an unreadable one
\* nothing; the worker that went through its whole chunk exits with code 0
\* and its delivered result is that list
UnreadableDocumentContributesNothing ==
    runKind = "extraction" =>
        \A w \in Workers :
            /\ child[w].results =
                  RefsOfDocs(Readable(SubSeq(chunks[w], 1, child[w].processed)))
            /\ promise[w].received =>
                  /\ child[w].code = 0
                  /\ promise[w].result = RefsOfDocs(Readable(chunks[w]))

\* a worker delivered the references of a chunk in which an unreadable
\* document follows one that cites
ResultDespiteUnreadableDocument ==
    /\ runKind = "extraction"
    /\ \E w \in Workers :
          /\ promise[w].received /\ promise[w].state = "fulfilled"
          /\ Len(chunks[w]) >= 2
          /\ ~chunks[w][Len(chunks[w])].readable
          /\ promise[w].result # <<>>

\* C18: each of references.json and backlinks.json is written at most once,
\* never while a worker is running, and only when every worker has exited
\* and the unique list is the deduplicated merged list
FilesWrittenOnceAfterTheJoin ==
    /\ Occurrences("references.json") <= 1
    /\ Occurrences("backlinks.json") <= 1
    /\ (Occurrences("references.json") + Occurrences("backlinks.json") > 0) =>
          /\ \A w \in Workers : child[w].status = "exited"
          /\ allReferences = Flatten(PromiseValues)
          /\ uniqueRefs = dedupeReferences(allReferences)
          /\ mainPc = "done"

\* both files are on disk after two workers have exited
BothFilesWritten ==
    /\ Occurrences("references.json") = 1
    /\ Occurrences("backlinks.json") = 1
    /\ Len(child) = 2
    /\ uniqueRefs # <<>>

AbbreviationsBecomeCandidates ==
    /\ pc \in {"phase1", "phase2", "phase3", "returned"} =>
          \A i \in 1..Len(abbrTable) :
              \E j \in 1..Len(knownLawNames) :
                  /\ knownLawNames[j].name = abbrTable[i].key
                  /\ knownLawNames[j].law = abbrTable[i].value
    /\ pc = "returned" =>
          \A i \in 1..Len(abbrTable) :
              (/\ xmlContent = abbrTable[i].key
               /\ Len(abbrTable[i].key) >= 2
               /\ abbrTable[i].value.id # fromLaw.id)
                  => \E r \in 1..Len(references) :
                        references[r].to_law_id = abbrTable[i].value.id

(***************************************************************************)
(* Properties of the multi-process graph build.                            *)
(***************************************************************************)
HopsOf(entry) ==
    { entry.reachable_from[n] : n \in DOMAIN entry.reachable_from }
        \cup { entry.reachable_to[n] : n \in DOMAIN entry.reachable_to }

\* C22: whatever maximum hop count H is configured, every hop count a graph
\* worker records in reachable_from and reachable_to is at most H
ExhaustiveModeIsCapped ==
    runKind = "reachability" =>
        \A H \in 1..MaxHopCap :
            \A w \in Workers :
                \A k \in 1..Len(child[w].results) :
                    \A h \in HopsOf(child[w].results[k]) : h <= H

\* C23: when the coordinator has gone past the join, the merged output holds
\* the complete result of every worker that exited with code 0
ExitedWorkersResultsAreMerged ==
    mainPc = "done" =>
        \A w \in Workers :
            child[w].code = 0 =>
                \A k \in 1..Len(child[w].results) :
                    \E m \in 1..Len(allReferences \o reachability) :
                        (allReferences \o reachability)[m] = child[w].results[k]

(***************************************************************************)
(* Properties of buildAdjacencyList.                                       *)
(***************************************************************************)
RefsBetween(f, t) ==
    Cardinality({i \in 1..Len(graphRefs) :
                    graphRefs[i].from_law_id = f /\ graphRefs[i].to_law_id = t})

RECURSIVE SumOver(_, _)
SumOver(count, pairs) ==
    IF pairs = {} THEN 0
    ELSE LET e == CHOOSE x \in pairs : TRUE
         IN  count[e] + SumOver(count, pairs \ {e})

\* C24: in the built adjacency the count of the edge (from, to) is the number
\* of references with that from_law_id and to_law_id, B is among the targets
\* of A exactly when that number is positive, and the counts add up to the
\* number of references whose to_law_id is set
EdgeCountsMatchReferences ==
    graphPc = "built" =>
        /\ \A f \in NodeIds, t \in NodeIds :
              /\ adjacency.count[<<f, t>>] = RefsBetween(f, t)
              /\ (\E k \in 1..Len(adjacency.outgoing[f]) : adjacency.outgoing[f][k] = t)
                    <=> RefsBetween(f, t) > 0
        /\ SumOver(adjacency.count, NodeIds \X NodeIds)
              = Cardinality({i \in 1..Len(graphRefs) : graphRefs[i].to_law_id # Null})

\* an edge cited twice next to a reference without a target
EdgeCitedTwiceBesideNullTarget ==
    /\ graphPc = "built"
    /\ adjacency.count[<<IdA, IdB>>] = 2
    /\ \E i \in 1..Len(graphRefs) : graphRefs[i].to_law_id = Null

(***************************************************************************)
(* Properties of the sequential extractor.                                 *)
(***************************************************************************)
\* C28: no Reference of the sequential extractor, from the pattern with the
\* promulgation number or from the pattern with the article, cites the
\* document's own law
SequentialNoSelfCitation ==
    pc \in {"pattern2", "returned"} =>
        \A i \in 1..Len(references) : references[i].to_law_id # fromLaw.id

(***************************************************************************)
(* Forward and reverse reachability against each other.                    *)
(***************************************************************************)
\* the map records the node at hop h
RecordedAt(dist, n, h) == n \in DOMAIN dist /\ dist[n] = h

\* C30: the reverse adjacency is the transpose of the forward adjacency, and
\* under the same hop cap B is in reachable_from(A) at hop h exactly when A
\* is in reachable_to(B) at hop h
ForwardAndReverseAgree ==
    /\ graphPc \in {"built", "computed", "compared"} =>
          \A a \in NodeIds, b \in NodeIds :
              (\E k \in 1..Len(adjacency.outgoing[a]) : adjacency.outgoing[a][k] = b)
                  <=> (\E k \in 1..Len(adjacency.incoming[b]) : adjacency.incoming[b][k] = a)
    /\ graphPc \in {"computed", "compared"} =>
          \A b \in NodeIds :
              \A h \in 0..Cardinality(NodeIds) :
                  /\ RecordedAt(reachableFrom, b, h)
                        <=> RecordedAt(computeReverseReachability(
                                           b, adjacency.incoming, maxHops), startId, h)
                  /\ RecordedAt(reachableTo, b, h)
                        <=> RecordedAt(computeReachability(
                                           b, adjacency.outgoing, maxHops), startId, h)

\* under a numeric cap a law is two hops away forwards and another one two
\* hops away backwards, in a graph with a cycle
TwoHopsBothWays ==
    /\ graphPc = "computed"
    /\ maxHops # NoCap
    /\ \E b \in NodeIds : RecordedAt(reachableFrom, b, 2)
    /\ \E b \in NodeIds : RecordedAt(reachableTo, b, 2)

(***************************************************************************)
(* The searches one loop iteration at a time: computeReachability and      *)
(* computeReachabilityInfinite (forward), computeReverseReachability, and  *)
(* findShortestPath / findPath.  enqueued lists the ids pushed on the      *)
(* queue, in order, the initial entry included.                            *)
(***************************************************************************)
BfsKinds == {"forward", "reverse", "path"}

BfsInit ==
    /\ graphRefs \in SeqsUpTo(EdgePool, MaxEdges)
    /\ adjacency = <<>>
    /\ graphPc = "loaded"
    /\ startId = Null /\ maxHops = 0 /\ reachableFrom = <<>> /\ reachableTo = <<>>
    /\ higherHops = 0 /\ reachableFromHigher = <<>>
    /\ bfsKind \in BfsKinds
    /\ queue = <<>> /\ visited = {} /\ distances = <<>> /\ enqueued = <<>>
    /\ ExtractIdle
    /\ DedupeIdle
    /\ BacklinkIdle /\ SelectIdle /\ PathIdle /\ ChunkIdle /\ RunIdle /\ PayloadIdle

bfsFixed == <<graphRefs, adjacency, reachableFrom, reachableTo, higherHops,
              reachableFromHigher, bfsKind, extractVars, dedupeVars, backlinkVars,
              selectVars, chunkVars, runVars, payloadVars>>

\* the ids of the entries pushed on a queue that had n entries left
PushedIds(q, n) == [k \in 1..(Len(q) - n) |-> q[n + k].id]

\* const queue = [{ id: startId, dist: 0 }]; visited.add(startId)
StartReachability ==
    /\ graphPc = "built"
    /\ bfsKind \in {"forward", "reverse"}
    /\ startId' \in NodeIds
    /\ maxHops' \in {NoCap} \cup 0..MaxHopCap
    /\ queue' = <<[id |-> startId', dist |-> 0]>>
    /\ visited' = {startId'}
    /\ distances' = <<>>
    /\ enqueued' = <<startId'>>
    /\ graphPc' = "searching"
    /\ UNCHANGED <<pathVars, bfsFixed>>

\* if (fromId === toId) return [fromId]; const queue = [{ id: fromId, path: [fromId] }]
StartPath ==
    /\ graphPc = "built"
    /\ bfsKind = "path"
    /\ pathFrom' \in NodeIds
    /\ pathTo' \in NodeIds
    /\ IF pathFrom' = pathTo'
       THEN /\ foundPath' = <<pathFrom'>>
            /\ graphPc' = "returned"
            /\ UNCHANGED <<queue, visited, enqueued>>
       ELSE /\ foundPath' = Null
            /\ queue' = <<[id |-> pathFrom', path |-> <<pathFrom'>>]>>
            /\ visited' = {pathFrom'}
            /\ enqueued' = <<pathFrom'>>
            /\ graphPc' = "searching"
    /\ UNCHANGED <<startId, maxHops, distances, bfsFixed>>

\* one pass through the body of while (queue.length > 0) of a reachability search
ReachabilityIteration ==
    /\ graphPc = "searching"
    /\ bfsKind \in {"forward", "reverse"}
    /\ queue # <<>>
    /\ LET adj == IF bfsKind = "forward" THEN adjacency.outgoing ELSE adjacency.incoming
           st == BfsIteration(adj, [visited |-> visited, distances |-> distances,
                                    queue |-> queue], maxHops)
       IN  /\ queue' = st.queue
           /\ visited' = st.visited
           /\ distances' = st.distances
           /\ enqueued' = enqueued \o PushedIds(st.queue, Len(queue) - 1)
    /\ UNCHANGED <<startId, maxHops, graphPc, pathVars, bfsFixed>>

\* one pass through the body of while (queue.length > 0) of the path finder
PathIteration ==
    /\ graphPc = "searching"
    /\ bfsKind = "path"
    /\ queue # <<>>
    /\ LET st == PathScan(adjacency.outgoing[Head(queue).id], pathTo, Head(queue).path,
                          [found |-> Null, visited |-> visited, queue |-> Tail(queue)])
       IN  /\ queue' = st.queue
           /\ visited' = st.visited
           /\ enqueued' = enqueued \o PushedIds(st.queue, Len(queue) - 1)
           /\ foundPath' = st.found
           /\ graphPc' = IF st.found # Null THEN "returned" ELSE "searching"
    /\ UNCHANGED <<startId, maxHops, distances, pathFrom, pathTo, bfsFixed>>

\* queue.length === 0: return distances / return null
LoopExit ==
    /\ graphPc = "searching"
    /\ queue = <<>>
    /\ graphPc' = "returned"
    /\ UNCHANGED <<startId, maxHops, queue, visited, distances, enqueued, pathVars,
                   bfsFixed>>

BfsNext ==
    \/ BuildGraph
    \/ StartReachability
    \/ StartPath
    \/ ReachabilityIteration
    \/ PathIteration
    \/ LoopExit

SpecBfs == BfsInit /\ [][BfsNext]_vars

\* the calls are synchronous code of one thread: whichever step is next is taken
SpecBfsFair == SpecBfs /\ WF_vars(BfsNext)

\* the number of times the id was pushed on the queue
TimesEnqueued(n) == Cardinality({k \in 1..Len(enqueued) : enqueued[k] = n})

\* C27: with or without a hop cap, on graphs with cycles and self-loops, a
\* search pushes every node on its queue at most once, so the loop ends: the
\* search returns, with an empty queue unless the path finder returned a path
SearchTerminates ==
    /\ [](\A n \in NodeIds : TimesEnqueued(n) <= 1)
    /\ [](graphPc = "returned" /\ foundPath = Null => queue = <<>>)
    /\ <>(graphPc = "returned")

\* the law is among the neighbours listed for the other one
ListsNeighbour(a, b) == \E k \in 1..Len(adjacency.outgoing[a]) : adjacency.outgoing[a][k] = b

\* an uncapped forward search from a law that cites itself and lies on a
\* cycle through another law has returned after pushing both laws
UncappedSearchAroundACycleReturned ==
    /\ graphPc = "returned"
    /\ bfsKind = "forward"
    /\ maxHops = NoCap
    /\ ListsNeighbour(startId, startId)
    /\ \E n \in NodeIds \ {startId} :
          /\ ListsNeighbour(startId, n)
          /\ ListsNeighbour(n, startId)
          /\ enqueued = <<startId, n>>
    /\ queue = <<>>

=============================================================================
